---- MODULE Spec2Model ----
(***************************************************************************)
(* Execution and risk core of the trading agent: the paper ledger, the    *)
(* paper execution paths, the order tracker, the circuit breaker and the   *)
(* tick overlap guard.                                                     *)
(*                                                                         *)
(* Money and prices are exact integers in units of 10^-6 dollar (the       *)
(* ledger rounds average prices to six decimals); quantities are whole     *)
(* shares; time is in seconds.                                             *)
(***************************************************************************)
EXTENDS Integers, Sequences, FiniteSets, TLC

VARIABLES
    LEDGER,        \* PaperLedger in memory: cash, positions, total_pnl, reserved
    redis_ledger,  \* the ledger state last written by save_to_redis
    LIVE_LEDGER,   \* LiveLedger in memory: cash, positions, total_pnl, closed_positions
    orders,        \* OrderTracker._orders: order id -> TrackedOrder
    next_id,       \* number of order ids handed out so far
    now,           \* time.time()
    last,          \* the most recent ledger / execution call, with its result
    prev,          \* the call before last
    calls,         \* number of direct ledger calls made (SpecLedger)
    pc,            \* per thread: position inside place_order / process_fills
    frame,         \* per thread: local variables of the running function
    applied,       \* order ids whose fill reached add_position / reduce_position
    cb,            \* circuit breaker keys in the store: state, reason, tripped_at
    streak,        \* STATE: consecutive_wins, consecutive_losses, last_trade_timestamp
    tick_lock,     \* _TICK_LOCK: the request holding it, or NoOne
    req,           \* per /agent/tick request: position, decision, result
    tick_count,    \* STATE.tick_count
    tick_errors,   \* STATE.tick_total_errors
    placed,        \* orders placed by _execute_trade on behalf of a decision
    drawdown       \* DrawdownMonitor keys in the store: peak_equity, current, max

vars == <<LEDGER, redis_ledger, LIVE_LEDGER, orders, next_id, now, last, prev, calls, pc, frame,
          applied, cb, streak, tick_lock, req, tick_count, tick_errors, placed, drawdown>>

ledgerVars == <<LEDGER, redis_ledger>>
execVars == <<orders, next_id, now, pc, frame, applied>>
tickVars == <<cb, streak, tick_lock, req, tick_count, tick_errors, placed>>

----------------------------------------------------------------------------
(* Bounds of the model *)

MaxOrders == 2
MaxCalls == 3
MaxTicks == 6
MaxTime == 360
MaxTracked == 2
MaxBook == 1
MaxStreak == 5

MaxCooldowns == 2

MaxEquities == 4

MaxStoreCalls == 2

(* Program constants *)

Micro == 1000000
InitialCashUsd == 100
MAX_HOLD_S == 180
max_consecutive_losses == 5
cooldown_seconds == 3600
max_daily_loss == 50
max_weekly_loss == 200
max_position_size_usd == 100
max_position_pct == 20
max_open_positions == 3
max_drawdown_pct == 15
ORDER_USD == 5
TRADE_COOLDOWN_S == 5

\* PositionManager: take-profit and stop-loss bands in percent
TP_PCT == 1
SL_PCT == 1

\* KellyCriterion: the fraction of full Kelly in percent, the size bounds in dollars
kelly_fraction == 25
min_position_size == 5
max_position_size == 100

InitialCash == InitialCashUsd * Micro

Tokens == {"A", "B"}
Prices == {400000, 600000}
Qtys == {15, 150}
OrderQtys == {100, 200}
OrderIds == 1..MaxOrders
NoId == 0
NoTime == -1
Amounts == {p * q : p \in Prices, q \in Qtys}
TimeStep == MAX_HOLD_S

----------------------------------------------------------------------------
(* Helpers *)

Put(f, k, v) == [x \in DOMAIN f \cup {k} |-> IF x = k THEN v ELSE f[x]]

Drop(f, k) == [x \in DOMAIN f \ {k} |-> f[x]]

Min(a, b) == IF a <= b THEN a ELSE b

Max(a, b) == IF a >= b THEN a ELSE b

RECURSIVE SumOver(_, _)
SumOver(f, S) ==
    IF S = {} THEN 0
    ELSE LET k == CHOOSE x \in S : TRUE IN f[k] + SumOver(f, S \ {k})

\* round(n / d, 6) on values already scaled by 10^6: nearest integer
RoundDiv(n, d) == (2 * n + d) \div (2 * d)

\* round(x, 4) of an amount in units of 10^-6
Round4(x) == RoundDiv(x, 100) * 100

----------------------------------------------------------------------------
(* PaperLedger: each operator maps the ledger before the call to the ledger *)
(* after it, the value returned, and whether save_to_redis ran.             *)

EmptyMap == [x \in {} |-> 0]

EmptyLedger(c) ==
    [cash |-> c, positions |-> EmptyMap, total_pnl |-> 0, reserved |-> EmptyMap,
     closed_positions |-> <<>>]

reserve_cash_unchecked(L, amount, order_id) ==
    [ledger |-> [L EXCEPT !.cash = @ - amount,
                          !.reserved = Put(@, order_id, amount)],
     ok |-> TRUE, saved |-> TRUE]

reserve_cash_records_refusal(L, amount, order_id) ==
    IF amount > L.cash
    THEN [ledger |-> [L EXCEPT !.reserved = Put(@, order_id, amount)],
          ok |-> FALSE, saved |-> TRUE]
    ELSE reserve_cash_unchecked(L, amount, order_id)

reserve_cash(L, amount, order_id) ==
    IF amount > L.cash
    THEN [ledger |-> L, ok |-> FALSE, saved |-> FALSE]
    ELSE [ledger |-> [L EXCEPT !.cash = @ - amount,
                               !.reserved = Put(@, order_id, amount)],
          ok |-> TRUE, saved |-> TRUE]

release_reserved_cash(L, order_id) ==
    IF order_id = NoId \/ order_id \notin DOMAIN L.reserved
    THEN [ledger |-> L, ret |-> 0, saved |-> FALSE]
    ELSE [ledger |-> [L EXCEPT !.reserved = Drop(@, order_id)],
          ret |-> L.reserved[order_id], saved |-> TRUE]

cancel_reserved_no_refund(L, order_id) == release_reserved_cash(L, order_id)

cancel_reserved(L, order_id) ==
    LET r == release_reserved_cash(L, order_id) IN
    IF r.ret > 0
    THEN [ledger |-> [r.ledger EXCEPT !.cash = @ + r.ret], ret |-> r.ret, saved |-> TRUE]
    ELSE r

add_position_last_price(L, token_id, qty, price, t) ==
    IF token_id \in DOMAIN L.positions
    THEN [L EXCEPT !.positions[token_id].qty = @ + qty,
                   !.positions[token_id].avg_price = price]
    ELSE [L EXCEPT !.positions =
              Put(@, token_id, [qty |-> qty, avg_price |-> price, opened_at |-> t])]

add_position(L, token_id, qty, price, t) ==
    IF token_id \in DOMAIN L.positions
    THEN LET pos == L.positions[token_id]
             old_qty == pos.qty
             old_avg == pos.avg_price
             new_qty == old_qty + qty
             new_avg == IF new_qty > 0
                        THEN RoundDiv(old_qty * old_avg + qty * price, new_qty)
                        ELSE price
         IN [L EXCEPT !.positions[token_id].qty = new_qty,
                      !.positions[token_id].avg_price = new_avg]
    ELSE [L EXCEPT !.positions =
              Put(@, token_id, [qty |-> qty, avg_price |-> price, opened_at |-> t])]

ClosedPosition(token_id, qty, avg_buy_price, sell_price, pnl) ==
    [token_id |-> token_id, qty |-> qty, avg_buy_price |-> avg_buy_price,
     sell_price |-> sell_price, pnl |-> pnl]

reduce_position_unclamped(L, token_id, qty, price) ==
    IF token_id \notin DOMAIN L.positions
    THEN [ledger |-> L, found |-> FALSE, pnl |-> 0, sold |-> 0, saved |-> FALSE]
    ELSE LET pos == L.positions[token_id]
             pnl == (price - pos.avg_price) * qty
             new_qty == pos.qty - qty
         IN [ledger |-> [L EXCEPT
                 !.positions = IF new_qty <= 0 THEN Drop(@, token_id)
                               ELSE [@ EXCEPT ![token_id].qty = new_qty],
                 !.closed_positions =
                     IF new_qty <= 0
                     THEN Append(@, ClosedPosition(token_id, pos.qty, pos.avg_price,
                                                   price, Round4(pnl)))
                     ELSE @,
                 !.cash = @ + qty * price,
                 !.total_pnl = @ + pnl],
             found |-> TRUE, pnl |-> Round4(pnl), sold |-> qty, saved |-> TRUE]

\* Quantities are whole shares, so a remainder of at most 0.001 is a remainder
\* of zero.
reduce_position(L, token_id, qty, price) ==
    IF token_id \notin DOMAIN L.positions
    THEN [ledger |-> L, found |-> FALSE, pnl |-> 0, sold |-> 0, saved |-> FALSE]
    ELSE LET pos == L.positions[token_id]
             current_qty == pos.qty
             avg_price == pos.avg_price
             q == Min(qty, current_qty)
             pnl == (price - avg_price) * q
             new_qty == current_qty - q
             P2 == IF new_qty <= 0
                   THEN Drop(L.positions, token_id)
                   ELSE [L.positions EXCEPT ![token_id].qty = new_qty]
             C2 == IF new_qty <= 0
                   THEN Append(L.closed_positions,
                               ClosedPosition(token_id, current_qty, avg_price, price,
                                              Round4(pnl)))
                   ELSE L.closed_positions
         IN [ledger |-> [L EXCEPT !.positions = P2,
                                  !.closed_positions = C2,
                                  !.cash = @ + q * price,
                                  !.total_pnl = @ + pnl],
             found |-> TRUE, pnl |-> Round4(pnl), sold |-> q,
             saved |-> TRUE]

get_position(L, token_id) == token_id \in DOMAIN L.positions

ReservedTotal(L) == SumOver(L.reserved, DOMAIN L.reserved)

CostBasis(L) ==
    SumOver([k \in DOMAIN L.positions |-> L.positions[k].qty * L.positions[k].avg_price],
            DOMAIN L.positions)

get_portfolio_value(L) == L.cash + ReservedTotal(L) + CostBasis(L)

Abs(x) == IF x < 0 THEN -x ELSE x

\* LiveLedger.__init__ with nothing in the store
EmptyLiveLedger ==
    [cash |-> 0, positions |-> EmptyMap, total_pnl |-> 0, closed_positions |-> <<>>]

\* LiveLedger.add_position; order_id is NoId when the venue returned none
live_add_position(L, token_id, qty, price, order_id, t) ==
    IF token_id \in DOMAIN L.positions
    THEN LET pos == L.positions[token_id]
             old_qty == pos.qty
             old_avg == pos.avg_price
             new_qty == old_qty + qty
             new_avg == IF new_qty > 0
                        THEN RoundDiv(old_qty * old_avg + qty * price, new_qty)
                        ELSE price
         IN [L EXCEPT !.positions[token_id].qty = new_qty,
                      !.positions[token_id].avg_price = new_avg,
                      !.positions[token_id].order_ids =
                          IF order_id # NoId THEN Append(@, order_id) ELSE @]
    ELSE [L EXCEPT !.positions =
              Put(@, token_id,
                  [qty |-> qty, avg_price |-> price, opened_at |-> t,
                   order_ids |-> IF order_id # NoId THEN <<order_id>> ELSE <<>>])]

NoCall == [op |-> "none", token_id |-> "", order_id |-> NoId, amount |-> 0, qty |-> 0,
           ok |-> FALSE, ret |-> 0, before |-> EmptyLedger(0)]

Call(op, token_id, order_id, amount, qty, ok, ret, before) ==
    [op |-> op, token_id |-> token_id, order_id |-> order_id, amount |-> amount,
     qty |-> qty, ok |-> ok, ret |-> ret, before |-> before]

Record(c) == last' = c /\ prev' = last

Save(r) == IF r.saved THEN r.ledger ELSE redis_ledger


----------------------------------------------------------------------------
(* Direct calls of the ledger's methods, in any order (SpecLedger) *)

\* a key that is not in the store
NoValue == -1

EmptyDrawdown == [peak_equity |-> NoValue, current |-> NoValue, max |-> NoValue]

Threads == {"tick", "api"}

NoFrame == [token_id |-> "", side |-> "", price |-> 0, qty |-> 0, order_id |-> NoId,
            fills |-> <<>>, amount |-> 0]

NoReq == [pc |-> "idle", decision |-> "hold", allowed |-> FALSE, cb_seen |-> "closed",
          ok |-> TRUE, result |-> "none", realized |-> 0]

Requests == {"r1", "r2"}
NoOne == "none"

Init ==
    /\ LEDGER = EmptyLedger(InitialCash)
    /\ redis_ledger = EmptyLedger(InitialCash)
    /\ LIVE_LEDGER = EmptyLiveLedger
    /\ orders = EmptyMap
    /\ next_id = 0
    /\ now = 0
    /\ last = NoCall
    /\ prev = NoCall
    /\ calls = 0
    /\ pc = [t \in Threads |-> "idle"]
    /\ frame = [t \in Threads |-> NoFrame]
    /\ applied = {}
    /\ cb = [state |-> "closed", reason |-> "", tripped_at |-> -1]
    /\ streak = [wins |-> 0, losses |-> 0, last_trade_timestamp |-> 0]
    /\ tick_lock = NoOne
    /\ req = [r \in Requests |-> NoReq]
    /\ tick_count = 0
    /\ tick_errors = 0
    /\ placed = 0
    /\ drawdown = EmptyDrawdown

LedgerCall(r, c) ==
    /\ calls < MaxCalls
    /\ calls' = calls + 1
    /\ LEDGER' = r.ledger
    /\ redis_ledger' = Save(r)
    /\ Record(c)
    /\ UNCHANGED execVars
    /\ UNCHANGED tickVars
    /\ UNCHANGED <<LIVE_LEDGER, drawdown>>

ReserveCash ==
    \E amount \in Amounts, order_id \in OrderIds :
        LET r == reserve_cash(LEDGER, amount, order_id) IN
        LedgerCall(r, Call("reserve_cash", "", order_id, amount, 0, r.ok, 0, LEDGER))

ReleaseReservedCash ==
    \E order_id \in OrderIds \cup {NoId} :
        LET r == release_reserved_cash(LEDGER, order_id) IN
        LedgerCall(r, Call("release_reserved_cash", "", order_id, 0, 0, TRUE, r.ret, LEDGER))

CancelReserved ==
    \E order_id \in OrderIds :
        LET r == cancel_reserved(LEDGER, order_id) IN
        LedgerCall(r, Call("cancel_reserved", "", order_id, 0, 0, TRUE, r.ret, LEDGER))

AddPosition ==
    \E token_id \in Tokens, qty \in Qtys, price \in Prices :
        LET L2 == add_position(LEDGER, token_id, qty, price, now) IN
        LedgerCall([ledger |-> L2, saved |-> TRUE],
                   Call("add_position", token_id, NoId, qty * price, qty, TRUE, 0, LEDGER))

ReducePosition ==
    \E token_id \in Tokens, qty \in Qtys, price \in Prices :
        LET r == reduce_position(LEDGER, token_id, qty, price) IN
        LedgerCall(r, Call("reduce_position", token_id, NoId, qty * price, qty,
                           r.found, r.pnl, LEDGER))

NextLedger ==
    \/ ReserveCash
    \/ ReleaseReservedCash
    \/ CancelReserved
    \/ AddPosition
    \/ ReducePosition

SpecLedger == Init /\ [][NextLedger]_vars

\* LIVE_LEDGER.add_position as live place_order calls it
LiveAddPosition ==
    /\ calls < MaxCalls
    /\ calls' = calls + 1
    /\ \E token_id \in Tokens, qty \in Qtys, price \in Prices, order_id \in {NoId, 1} :
        /\ LIVE_LEDGER' = live_add_position(LIVE_LEDGER, token_id, qty, price, order_id, now)
        /\ Record(Call("live_add_position", token_id, order_id, qty * price, qty, TRUE, 0,
                       LIVE_LEDGER))
    /\ UNCHANGED <<LEDGER, redis_ledger, drawdown>>
    /\ UNCHANGED execVars
    /\ UNCHANGED tickVars

NextPositions ==
    \/ AddPosition
    \/ LiveAddPosition

\* add_position of the paper and of the live ledger
SpecPositions == Init /\ [][NextPositions]_vars


----------------------------------------------------------------------------
(* Claims about the ledger's methods, checked under SpecLedger *)

\* C1: in every reachable ledger state, available cash plus the sum of all
\* reservations is at most the initial cash plus the cumulative realized PnL.
C1_CashBoundedByInitialPlusPnl ==
    LEDGER.cash + ReservedTotal(LEDGER) <= InitialCash + LEDGER.total_pnl

\* C2: after any sequence of add_position / reduce_position / reserve_cash /
\* cancel_reserved calls, every open position's quantity, the available cash and
\* every reservation are >= 0.
C2_NothingNegative ==
    /\ LEDGER.cash >= 0
    /\ \A k \in DOMAIN LEDGER.positions : LEDGER.positions[k].qty >= 0
    /\ \A o \in DOMAIN LEDGER.reserved : LEDGER.reserved[o] >= 0

\* C2 witness: a sell of more than the held quantity has been clamped, while a
\* reservation is outstanding.
C2_Witness ==
    /\ last.op = "reduce_position"
    /\ last.ok
    /\ last.token_id \in DOMAIN last.before.positions
    /\ last.qty > last.before.positions[last.token_id].qty
    /\ DOMAIN LEDGER.reserved # {}

\* C8: a successful reserve_cash(amount, id) directly followed by
\* cancel_reserved(id) restores the cash to its value before the reservation,
\* returns the reserved amount and leaves no reservation under id.
C8_ReserveCancelRoundTrip ==
    (/\ prev.op = "reserve_cash"
     /\ prev.ok
     /\ last.op = "cancel_reserved"
     /\ last.order_id = prev.order_id)
    => /\ LEDGER.cash = prev.before.cash
       /\ last.ret = prev.amount
       /\ last.order_id \notin DOMAIN LEDGER.reserved

\* C8 witness: the round trip has happened.
C8_Witness ==
    /\ prev.op = "reserve_cash"
    /\ prev.ok
    /\ prev.amount > 0
    /\ last.op = "cancel_reserved"
    /\ last.order_id = prev.order_id

\* C9: reserve_cash(amount, id) with amount above the available cash returns
\* false and leaves cash, reservations, positions and total PnL as they were,
\* in memory and in the store.
C9_ReserveInsufficientNoMutation ==
    (last.op = "reserve_cash" /\ last.amount > last.before.cash)
    => /\ ~last.ok
       /\ LEDGER = last.before
       /\ redis_ledger = last.before

\* C9 witness: a reservation above the available cash has been attempted after
\* the ledger had already changed.
C9_Witness ==
    /\ last.op = "reserve_cash"
    /\ last.amount > last.before.cash
    /\ last.before # EmptyLedger(InitialCash)

\* the price passed to the last add_position / reduce_position call
PriceOf(c) == c.amount \div c.qty

\* C16: paper add_position(token, qty, price) lowers the available cash by
\* qty * price, and on a token without a position creates one with that qty
\* and avg_price = price.
C16_AddPositionDebitsCash ==
    last.op = "add_position"
    => /\ LEDGER.cash = last.before.cash - last.qty * PriceOf(last)
       /\ last.token_id \notin DOMAIN last.before.positions
          => /\ LEDGER.positions[last.token_id].qty = last.qty
             /\ LEDGER.positions[last.token_id].avg_price = PriceOf(last)

\* the positions after the last add_position call, paper or live
PositionsAfterAdd ==
    IF last.op = "live_add_position" THEN LIVE_LEDGER.positions ELSE LEDGER.positions

\* What add_position is claimed to do to the position; the average price is the
\* volume-weighted average itself (exact) or that average rounded to six decimals.
AddAsClaimed(exact) ==
    last.op \in {"add_position", "live_add_position"} =>
    LET after == PositionsAfterAdd[last.token_id]
        price == PriceOf(last)
    IN IF last.token_id \in DOMAIN last.before.positions
       THEN LET pos == last.before.positions[last.token_id]
                new_qty == pos.qty + last.qty
                weighted == pos.qty * pos.avg_price + last.qty * price
            IN /\ after.qty = new_qty
               /\ IF exact
                  THEN after.avg_price * new_qty = weighted
                  ELSE 2 * Abs(after.avg_price * new_qty - weighted) <= new_qty
       ELSE /\ after.qty = last.qty
            /\ after.avg_price = price

ReduceAsClaimed(exact) ==
    last.op = "reduce_position" =>
    IF last.token_id \notin DOMAIN last.before.positions
    THEN /\ ~last.ok
         /\ LEDGER = last.before
    ELSE LET pos == last.before.positions[last.token_id]
             q == Min(last.qty, pos.qty)
             pnl == (PriceOf(last) - pos.avg_price) * q
         IN /\ last.ok
            /\ last.ret = IF exact THEN pnl ELSE Round4(pnl)
            /\ LEDGER.cash = last.before.cash + q * PriceOf(last)
            /\ LEDGER.total_pnl = last.before.total_pnl + pnl
            /\ LEDGER.reserved = last.before.reserved
            /\ \A k \in DOMAIN last.before.positions \ {last.token_id} :
                  /\ k \in DOMAIN LEDGER.positions
                  /\ LEDGER.positions[k] = last.before.positions[k]
            /\ IF pos.qty - q <= 0
               THEN /\ last.token_id \notin DOMAIN LEDGER.positions
                    /\ Len(LEDGER.closed_positions)
                          = Len(last.before.closed_positions) + 1
                    /\ SubSeq(LEDGER.closed_positions, 1,
                              Len(last.before.closed_positions))
                          = last.before.closed_positions
               ELSE /\ LEDGER.positions[last.token_id]
                          = [pos EXCEPT !.qty = pos.qty - q]
                    /\ LEDGER.closed_positions = last.before.closed_positions

\* C18: reduce_position(token, qty, price) on a held position clamps qty to the
\* held quantity, returns pnl = (price - avg_price) * qty, adds qty * price to
\* cash and pnl to total_pnl, and lowers the position or, when nothing remains,
\* removes it and appends one record to the closed history; without a position
\* it returns None and changes nothing.
C18_ReducePosition == ReduceAsClaimed(TRUE)

\* C18 as amended: the same, with the returned value being the PnL rounded to
\* four decimals (total_pnl accumulates the unrounded PnL).
C18_ReducePositionRounded == ReduceAsClaimed(FALSE)

\* C18 witness: part of a position built by two buys was sold, and the value
\* returned differs from the exact PnL added to total_pnl.
C18_Witness ==
    /\ last.op = "reduce_position"
    /\ last.ok
    /\ last.token_id \in DOMAIN LEDGER.positions
    /\ LEDGER.total_pnl # last.ret + last.before.total_pnl


----------------------------------------------------------------------------
(* OrderTracker *)

TrackedOrder(token_id, side, limit_price, qty, mode, placed_at) ==
    [token_id |-> token_id, side |-> side, limit_price |-> limit_price, qty |-> qty,
     mode |-> mode, placed_at |-> placed_at, status |-> "open", filled_price |-> 0,
     filled_at |-> NoTime]

Terminal == {"filled", "cancelled", "expired"}

get_open_orders(O) == {o \in DOMAIN O : O[o].status = "open"}

\* current_prices: token -> mid price, for the tokens that have one
PriceMaps == UNION {[S -> Prices] : S \in SUBSET Tokens}

PaperOutcome_strict(order, current_prices, max_order_age_s, t) ==
    IF order.token_id \notin DOMAIN current_prices
       \/ current_prices[order.token_id] <= 0
    THEN "open"
    ELSE IF t - order.placed_at > max_order_age_s
    THEN "expired"
    ELSE IF \/ order.side = "buy" /\ current_prices[order.token_id] < order.limit_price
            \/ order.side = "sell" /\ current_prices[order.token_id] > order.limit_price
    THEN "filled"
    ELSE "open"

PaperOutcome_no_price_expires(order, current_prices, max_order_age_s, t) ==
    IF order.token_id \notin DOMAIN current_prices
       \/ current_prices[order.token_id] <= 0
    THEN "expired"
    ELSE IF t - order.placed_at > max_order_age_s
    THEN "expired"
    ELSE IF \/ order.side = "buy" /\ current_prices[order.token_id] <= order.limit_price
            \/ order.side = "sell" /\ current_prices[order.token_id] >= order.limit_price
    THEN "filled"
    ELSE "open"

\* What check_fills_paper does with one open paper order
PaperOutcome(order, current_prices, max_order_age_s, t) ==
    IF order.token_id \notin DOMAIN current_prices
       \/ current_prices[order.token_id] <= 0
    THEN "open"
    ELSE IF t - order.placed_at > max_order_age_s
    THEN "expired"
    ELSE IF \/ order.side = "buy" /\ current_prices[order.token_id] <= order.limit_price
            \/ order.side = "sell" /\ current_prices[order.token_id] >= order.limit_price
    THEN "filled"
    ELSE "open"

FillResult(o, order, price) ==
    [order_id |-> o, token_id |-> order.token_id, side |-> order.side,
     filled_price |-> price, qty |-> order.qty]

RECURSIVE FillsOf(_, _, _)
FillsOf(O, O2, i) ==
    IF i = 0 THEN <<>>
    ELSE LET rest == FillsOf(O, O2, i - 1) IN
         IF i \in DOMAIN O /\ O[i].status = "open" /\ O2[i].status = "filled"
         THEN Append(rest, FillResult(i, O2[i], O2[i].filled_price))
         ELSE rest

check_fills_paper(O, current_prices, max_order_age_s, t) ==
    LET step(o) ==
            IF O[o].status = "open" /\ O[o].mode = "paper"
            THEN LET out == PaperOutcome(O[o], current_prices, max_order_age_s, t) IN
                 IF out = "expired" THEN [O[o] EXCEPT !.status = "expired"]
                 ELSE IF out = "filled"
                 THEN [O[o] EXCEPT !.status = "filled",
                                   !.filled_at = t,
                                   !.filled_price = current_prices[O[o].token_id]]
                 ELSE O[o]
            ELSE O[o]
        O2 == [o \in DOMAIN O |-> step(o)]
    IN [orders |-> O2, fills |-> FillsOf(O, O2, MaxOrders)]

\* The venue's answer for one order: no answer, still resting, matched, cancelled
VenueAnswers == {"none", "live", "matched", "cancelled"}

check_fills_live(O, answer, t) ==
    LET step(o) ==
            IF O[o].status = "open" /\ O[o].mode = "live"
            THEN IF answer[o] = "matched"
                 THEN [O[o] EXCEPT !.status = "filled",
                                   !.filled_at = t,
                                   !.filled_price = O[o].limit_price]
                 ELSE IF answer[o] = "cancelled"
                 THEN [O[o] EXCEPT !.status = "cancelled"]
                 ELSE O[o]
            ELSE O[o]
        O2 == [o \in DOMAIN O |-> step(o)]
    IN [orders |-> O2, fills |-> FillsOf(O, O2, MaxOrders)]


----------------------------------------------------------------------------
(* paper_exec: place_order, process_fills, cancel_order.  The tick and the  *)
(* /paper/order endpoint run in different threads without a common lock, so *)
(* a function is one step per access to the shared ledger or tracker.       *)

ValidPrice(price) == 10000 <= price /\ price <= 990000

PlacePrices == Prices \cup {Micro}

SetLedger(r) ==
    /\ LEDGER' = r.ledger
    /\ redis_ledger' = Save(r)

\* _execute_fill: the ledger update of one fill
execute_fill(L, token_id, side, price, qty, t) ==
    IF side = "buy"
    THEN [ledger |-> add_position(L, token_id, qty, price, t), ok |-> TRUE, saved |-> TRUE]
    ELSE IF ~get_position(L, token_id)
    THEN [ledger |-> L, ok |-> FALSE, saved |-> FALSE]
    ELSE LET r == reduce_position(L, token_id, Min(qty, L.positions[token_id].qty), price)
         IN [ledger |-> r.ledger, ok |-> TRUE, saved |-> r.saved]

\* place_order up to and including the cash check (lines 42-73)
PlaceOrderCheck(t) ==
    /\ pc[t] = "idle"
    /\ \E token_id \in Tokens, side \in {"buy", "sell"}, price \in PlacePrices, qty \in OrderQtys :
        LET held == IF get_position(LEDGER, token_id)
                    THEN LEDGER.positions[token_id].qty ELSE 0
            q == IF side = "sell" /\ qty > held THEN held ELSE qty
            rejected == \/ ~ValidPrice(price)
                        \/ side = "sell" /\ ~get_position(LEDGER, token_id)
                        \/ side = "buy" /\ qty * price > LEDGER.cash
        IN IF rejected
           THEN UNCHANGED <<pc, frame, next_id>>
           ELSE IF side = "sell"
           THEN /\ pc' = [pc EXCEPT ![t] = "sell_fill"]
                /\ frame' = [frame EXCEPT ![t] =
                       [NoFrame EXCEPT !.token_id = token_id, !.side = side,
                                       !.price = price, !.qty = q]]
                /\ UNCHANGED next_id
           ELSE /\ next_id < MaxOrders
                /\ next_id' = next_id + 1
                /\ pc' = [pc EXCEPT ![t] = "reserve"]
                /\ frame' = [frame EXCEPT ![t] =
                       [NoFrame EXCEPT !.token_id = token_id, !.side = side,
                                       !.price = price, !.qty = q,
                                       !.order_id = next_id + 1]]
    /\ UNCHANGED <<LEDGER, redis_ledger, orders, now, last, prev, calls, applied>>
    /\ UNCHANGED tickVars
    /\ UNCHANGED <<LIVE_LEDGER, drawdown>>

\* place_order, sell: _execute_fill at once (lines 77-78)
PlaceOrderSellFill(t) ==
    /\ pc[t] = "sell_fill"
    /\ LET f == frame[t]
           r == execute_fill(LEDGER, f.token_id, "sell", f.price, f.qty, now)
       IN SetLedger(r)
    /\ pc' = [pc EXCEPT ![t] = "idle"]
    /\ frame' = [frame EXCEPT ![t] = NoFrame]
    /\ UNCHANGED <<orders, next_id, now, last, prev, calls, applied>>
    /\ UNCHANGED tickVars
    /\ UNCHANGED <<LIVE_LEDGER, drawdown>>

\* place_order, buy: LEDGER.reserve_cash(qty * price, order_id), result unused (line 92)
PlaceOrderReserve(t) ==
    /\ pc[t] = "reserve"
    /\ LET f == frame[t]
           r == reserve_cash(LEDGER, f.qty * f.price, f.order_id)
       IN SetLedger(r)
    /\ pc' = [pc EXCEPT ![t] = "add_order"]
    /\ UNCHANGED <<orders, next_id, now, last, prev, calls, frame, applied>>
    /\ UNCHANGED tickVars
    /\ UNCHANGED <<LIVE_LEDGER, drawdown>>

\* place_order, buy: get_order_tracker().add_order(order) (line 94)
PlaceOrderAdd(t) ==
    /\ pc[t] = "add_order"
    /\ LET f == frame[t] IN
       orders' = Put(orders, f.order_id,
                     TrackedOrder(f.token_id, f.side, f.price, f.qty, "paper", now))
    /\ pc' = [pc EXCEPT ![t] = "idle"]
    /\ frame' = [frame EXCEPT ![t] = NoFrame]
    /\ UNCHANGED <<LEDGER, redis_ledger, next_id, now, last, prev, calls, applied>>
    /\ UNCHANGED tickVars
    /\ UNCHANGED <<LIVE_LEDGER, drawdown>>

\* process_fills: tracker.check_fills_paper(current_prices) (lines 130-131)
ProcessFillsCheck ==
    /\ pc["tick"] = "idle"
    /\ \E current_prices \in PriceMaps :
        LET r == check_fills_paper(orders, current_prices, MAX_HOLD_S, now) IN
        /\ orders' = r.orders
        /\ frame' = [frame EXCEPT !["tick"] = [NoFrame EXCEPT !.fills = r.fills]]
        /\ pc' = [pc EXCEPT !["tick"] = IF r.fills = <<>> THEN "idle" ELSE "release"]
    /\ UNCHANGED <<LEDGER, redis_ledger, next_id, now, last, prev, calls, applied>>
    /\ UNCHANGED tickVars
    /\ UNCHANGED <<LIVE_LEDGER, drawdown>>

\* process_fills: LEDGER.release_reserved_cash(fill.order_id) for a buy (lines 136-137)
ProcessFillsRelease ==
    /\ pc["tick"] = "release"
    /\ LET fill == Head(frame["tick"].fills) IN
       IF fill.side = "buy"
       THEN SetLedger(release_reserved_cash(LEDGER, fill.order_id))
       ELSE UNCHANGED ledgerVars
    /\ pc' = [pc EXCEPT !["tick"] = "fill"]
    /\ UNCHANGED <<orders, next_id, now, last, prev, calls, frame, applied>>
    /\ UNCHANGED tickVars
    /\ UNCHANGED <<LIVE_LEDGER, drawdown>>

\* process_fills: _execute_fill(fill...) (lines 139-143)
ProcessFillsExecute ==
    /\ pc["tick"] = "fill"
    /\ LET fill == Head(frame["tick"].fills)
           rest == Tail(frame["tick"].fills)
           r == execute_fill(LEDGER, fill.token_id, fill.side, fill.filled_price,
                             fill.qty, now)
       IN /\ SetLedger(r)
          /\ applied' = applied \cup {fill.order_id}
          /\ frame' = [frame EXCEPT !["tick"].fills = rest]
          /\ pc' = [pc EXCEPT !["tick"] = IF rest = <<>> THEN "idle" ELSE "release"]
    /\ UNCHANGED <<orders, next_id, now, last, prev, calls>>
    /\ UNCHANGED tickVars
    /\ UNCHANGED <<LIVE_LEDGER, drawdown>>

\* cancel_order (lines 214-231)
cancel_order(O, L, order_id) ==
    IF order_id \notin DOMAIN O
    THEN [orders |-> O, ledger |-> L, saved |-> FALSE, ok |-> FALSE]
    ELSE LET r == IF O[order_id].side = "buy"
                  THEN release_reserved_cash(L, order_id)
                  ELSE [ledger |-> L, ret |-> 0, saved |-> FALSE]
         IN [orders |-> [O EXCEPT ![order_id].status = "cancelled"],
             ledger |-> r.ledger, saved |-> r.saved, ok |-> TRUE]

CancelOrder ==
    \E order_id \in OrderIds :
        LET r == cancel_order(orders, LEDGER, order_id) IN
        /\ orders' = r.orders
        /\ SetLedger(r)
        /\ UNCHANGED <<next_id, now, last, prev, calls, pc, frame, applied>>
        /\ UNCHANGED tickVars
        /\ UNCHANGED <<LIVE_LEDGER, drawdown>>

Next ==
    \/ \E t \in Threads : PlaceOrderCheck(t)
    \/ \E t \in Threads : PlaceOrderSellFill(t)
    \/ \E t \in Threads : PlaceOrderReserve(t)
    \/ \E t \in Threads : PlaceOrderAdd(t)
    \/ ProcessFillsCheck
    \/ ProcessFillsRelease
    \/ ProcessFillsExecute
    \/ CancelOrder

Spec == Init /\ [][Next]_vars

----------------------------------------------------------------------------
(* The same functions run to completion by one caller (SpecTracker), with   *)
(* orders resting at the venue, the venue's answers and the clock.          *)

\* place_order(token_id, side, price, qty, immediate=False) as one call
place_order(L, O, order_id, token_id, side, price, qty, t) ==
    LET held == IF get_position(L, token_id) THEN L.positions[token_id].qty ELSE 0
        q == IF side = "sell" /\ qty > held THEN held ELSE qty
    IN IF \/ ~ValidPrice(price)
          \/ side = "sell" /\ ~get_position(L, token_id)
          \/ side = "buy" /\ qty * price > L.cash
       THEN [ledger |-> L, orders |-> O, saved |-> FALSE, ok |-> FALSE, status |-> "error"]
       ELSE IF side = "sell"
       THEN LET r == execute_fill(L, token_id, side, price, q, t) IN
            [ledger |-> r.ledger, orders |-> O, saved |-> r.saved, ok |-> r.ok,
             status |-> "filled"]
       ELSE LET r == reserve_cash(L, q * price, order_id) IN
            [ledger |-> r.ledger,
             orders |-> Put(O, order_id, TrackedOrder(token_id, side, price, q, "paper", t)),
             saved |-> r.saved, ok |-> TRUE, status |-> "pending"]

RECURSIVE ApplyFills(_, _, _)
ApplyFills(L, fills, t) ==
    IF fills = <<>> THEN L
    ELSE LET fill == Head(fills)
             L1 == IF fill.side = "buy"
                   THEN release_reserved_cash(L, fill.order_id).ledger
                   ELSE L
             L2 == execute_fill(L1, fill.token_id, fill.side, fill.filled_price,
                                fill.qty, t).ledger
         IN ApplyFills(L2, Tail(fills), t)

\* process_fills(current_prices) as one call
process_fills(L, O, current_prices, t) ==
    LET r == check_fills_paper(O, current_prices, MAX_HOLD_S, t) IN
    [ledger |-> ApplyFills(L, r.fills, t), orders |-> r.orders, fills |-> r.fills,
     saved |-> r.fills # <<>>]

FillIds(fills) == {fills[i].order_id : i \in DOMAIN fills}

PlaceOrder ==
    /\ next_id < MaxTracked
    /\ \E token_id \in Tokens, side \in {"buy", "sell"}, price \in PlacePrices, qty \in OrderQtys :
        LET r == place_order(LEDGER, orders, next_id + 1, token_id, side, price, qty, now) IN
        /\ SetLedger(r)
        /\ orders' = r.orders
        /\ next_id' = IF r.status = "pending" THEN next_id + 1 ELSE next_id
    /\ UNCHANGED <<now, last, prev, calls, pc, frame, applied>>
    /\ UNCHANGED tickVars
    /\ UNCHANGED <<LIVE_LEDGER, drawdown>>

ProcessFills ==
    /\ \E current_prices \in PriceMaps :
        LET r == process_fills(LEDGER, orders, current_prices, now) IN
        /\ SetLedger(r)
        /\ orders' = r.orders
        /\ applied' = applied \cup FillIds(r.fills)
    /\ UNCHANGED <<next_id, now, last, prev, calls, pc, frame>>
    /\ UNCHANGED tickVars
    /\ UNCHANGED <<LIVE_LEDGER, drawdown>>

\* tracker.add_order of an order resting at the venue
AddLiveOrder ==
    /\ next_id < MaxTracked
    /\ next_id' = next_id + 1
    /\ \E side \in {"buy", "sell"}, price \in Prices :
        orders' = Put(orders, next_id + 1,
                      TrackedOrder("A", side, price, 100, "live", now))
    /\ UNCHANGED <<LEDGER, redis_ledger, now, last, prev, calls, pc, frame, applied>>
    /\ UNCHANGED tickVars
    /\ UNCHANGED <<LIVE_LEDGER, drawdown>>

CheckFillsLive ==
    /\ \E o \in get_open_orders(orders) : orders[o].mode = "live"
    /\ \E answer \in [DOMAIN orders -> VenueAnswers] :
        orders' = check_fills_live(orders, answer, now).orders
    /\ UNCHANGED <<LEDGER, redis_ledger, next_id, now, last, prev, calls, pc, frame, applied>>
    /\ UNCHANGED tickVars
    /\ UNCHANGED <<LIVE_LEDGER, drawdown>>

AdvanceTime ==
    /\ now + TimeStep <= MaxTime
    /\ now' = now + TimeStep
    /\ UNCHANGED <<LEDGER, redis_ledger, orders, next_id, last, prev, calls, pc, frame,
                   applied>>
    /\ UNCHANGED tickVars
    /\ UNCHANGED <<LIVE_LEDGER, drawdown>>

NextTracker ==
    \/ PlaceOrder
    \/ ProcessFills
    \/ CancelOrder
    \/ AddLiveOrder
    \/ CheckFillsLive
    \/ AdvanceTime

SpecTracker == Init /\ [][NextTracker]_vars

----------------------------------------------------------------------------
(* check_fills_paper called directly on a book of resting paper orders      *)
(* (SpecFills): any quotes, including a missing one and one that is not     *)
(* positive, at any age of the order.                                       *)

\* current_prices as a caller may pass it: a quote of 0 stands for any quote <= 0
QuoteMaps == UNION {[S -> Prices \cup {0}] : S \in SUBSET Tokens}

CheckCall(current_prices, max_order_age_s, t, before, fills) ==
    [op |-> "check_fills_paper", current_prices |-> current_prices,
     max_order_age_s |-> max_order_age_s, t |-> t, before |-> before, fills |-> fills]

\* tracker.add_order of a paper order
AddPaperOrder ==
    /\ next_id < MaxBook
    /\ next_id' = next_id + 1
    /\ \E token_id \in Tokens, side \in {"buy", "sell"}, limit_price \in Prices :
        orders' = Put(orders, next_id + 1,
                      TrackedOrder(token_id, side, limit_price, 100, "paper", now))
    /\ UNCHANGED <<LEDGER, redis_ledger, now, last, prev, calls, pc, frame, applied>>
    /\ UNCHANGED tickVars
    /\ UNCHANGED <<LIVE_LEDGER, drawdown>>

\* check_fills_paper while some paper order is open (its loop has no other effect)
CheckFillsPaper ==
    /\ \E o \in get_open_orders(orders) : orders[o].mode = "paper"
    /\ \E current_prices \in QuoteMaps :
        LET r == check_fills_paper(orders, current_prices, MAX_HOLD_S, now) IN
        /\ orders' = r.orders
        /\ last' = CheckCall(current_prices, MAX_HOLD_S, now, orders, r.fills)
    /\ UNCHANGED <<LEDGER, redis_ledger, next_id, now, prev, calls, pc, frame, applied>>
    /\ UNCHANGED tickVars
    /\ UNCHANGED <<LIVE_LEDGER, drawdown>>

NextFills ==
    \/ AddPaperOrder
    \/ CheckFillsPaper
    \/ AdvanceTime

SpecFills == Init /\ [][NextFills]_vars

----------------------------------------------------------------------------
(* Claims about check_fills_paper, checked under SpecFills *)

Checked == last.op = "check_fills_paper"

\* the paper orders that were open when the last check_fills_paper call began
OpenBefore ==
    {o \in DOMAIN last.before :
        last.before[o].status = "open" /\ last.before[o].mode = "paper"}

Aged(o) == last.t - last.before[o].placed_at > last.max_order_age_s

Quoted(o) ==
    /\ last.before[o].token_id \in DOMAIN last.current_prices
    /\ last.current_prices[last.before[o].token_id] > 0

QuoteOf(o) == last.current_prices[last.before[o].token_id]

Crossed(o) ==
    \/ last.before[o].side = "buy" /\ QuoteOf(o) <= last.before[o].limit_price
    \/ last.before[o].side = "sell" /\ QuoteOf(o) >= last.before[o].limit_price

FillsFor(o) == {i \in DOMAIN last.fills : last.fills[i].order_id = o}

\* C11: check_fills_paper fills an open, non-expired paper order that has a
\* current price exactly when it is a buy with price <= limit or a sell with
\* price >= limit; it then records status filled, the fill price and the time
\* and emits one FillResult with the order's id, token, side, fill price and
\* qty; otherwise the order stays open as it was and no FillResult is emitted.
C11_FillExactlyWhenCrossed ==
    Checked =>
    \A o \in OpenBefore :
        (~Aged(o) /\ Quoted(o)) =>
        IF Crossed(o)
        THEN /\ orders[o] = [last.before[o] EXCEPT !.status = "filled",
                                                   !.filled_price = QuoteOf(o),
                                                   !.filled_at = last.t]
             /\ Cardinality(FillsFor(o)) = 1
             /\ \A i \in FillsFor(o) :
                   last.fills[i] = [order_id |-> o,
                                    token_id |-> last.before[o].token_id,
                                    side |-> last.before[o].side,
                                    filled_price |-> QuoteOf(o),
                                    qty |-> last.before[o].qty]
        ELSE /\ orders[o] = last.before[o]
             /\ FillsFor(o) = {}

\* C11 witness: a buy was filled by a quote equal to its limit, some time after
\* it was placed.
C11_Witness ==
    /\ Checked
    /\ \E o \in OpenBefore :
          /\ ~Aged(o) /\ Quoted(o)
          /\ last.before[o].side = "buy"
          /\ QuoteOf(o) = last.before[o].limit_price
          /\ last.t > last.before[o].placed_at
          /\ orders[o].status = "filled"

\* C12: an open paper order older than max_order_age_s is expired by
\* check_fills_paper and gets no FillResult, whatever the current price is.
C12_TimeoutBeforeFill ==
    Checked =>
    \A o \in OpenBefore :
        Aged(o) => /\ orders[o].status = "expired"
                   /\ FillsFor(o) = {}

\* C13: an open paper order that is not older than the max age and has no
\* current price (missing or <= 0) is left unchanged and gets no FillResult.
C13_NoPriceLeftOpen ==
    Checked =>
    \A o \in OpenBefore :
        (~Aged(o) /\ ~Quoted(o)) => /\ orders[o] = last.before[o]
                                    /\ FillsFor(o) = {}

\* C13 witness: a young order was checked against a quote of zero for its token.
C13_Witness ==
    /\ Checked
    /\ \E o \in OpenBefore :
          /\ ~Aged(o)
          /\ last.before[o].token_id \in DOMAIN last.current_prices
          /\ QuoteOf(o) = 0

\* C14: an open paper order past the max age is expired by the next
\* check_fills_paper call even when that call has no current price for its
\* token, so no paper order stays open forever.
C14_AgedExpiresWithoutPrice ==
    Checked =>
    \A o \in OpenBefore :
        (Aged(o) /\ ~Quoted(o)) => orders[o].status = "expired"



----------------------------------------------------------------------------
(* Claims about the execution paths *)

PaperBuy(o) == orders[o].mode = "paper" /\ orders[o].side = "buy"

\* C3: under any interleaving of place_order calls, every buy order registered
\* as open in the order tracker holds a reservation of limit_price * qty under
\* its order id (the cash check and the reservation act as one step).
C3_OpenBuyIsReserved ==
    \A o \in DOMAIN orders :
        (PaperBuy(o) /\ orders[o].status = "open")
        => /\ o \in DOMAIN LEDGER.reserved
           /\ LEDGER.reserved[o] = orders[o].limit_price * orders[o].qty

\* C4: the cash of a filled buy order is at every moment either still in the
\* reservation map or already applied to the position, in memory and in the
\* store (release and position update are one step).
C4_FilledCashNeverInLimbo ==
    \A o \in DOMAIN orders :
        (PaperBuy(o) /\ orders[o].status = "filled")
        => /\ o \in DOMAIN LEDGER.reserved \/ o \in applied
           /\ o \in DOMAIN redis_ledger.reserved \/ o \in applied

\* C5: a TrackedOrder that is filled, cancelled or expired keeps that status
\* whatever operation runs next.
C5_TerminalIsFinal ==
    [][\A o \in DOMAIN orders :
          orders[o].status \in Terminal => orders'[o].status = orders[o].status]_vars

\* C10: cancelling an open paper buy order marks it cancelled and returns its
\* reserved amount to the available cash.
C10_CancelRefundsReservation ==
    [][\A o \in DOMAIN orders :
          (/\ PaperBuy(o)
           /\ orders[o].status = "open"
           /\ orders'[o].status = "cancelled")
          => LEDGER'.cash = LEDGER.cash +
                 (IF o \in DOMAIN LEDGER.reserved THEN LEDGER.reserved[o] ELSE 0)]_vars


\* C15: the ledger's positions change on behalf of an order only when the
\* tracker has recorded that order as filled: every step that changes the
\* positions applies a fill of an order whose tracker status is filled.
C15_PositionsChangeOnlyOnTrackedFill ==
    [][LEDGER'.positions # LEDGER.positions
       => \E o \in applied' \ applied :
             o \in DOMAIN orders' /\ orders'[o].status = "filled"]_vars


----------------------------------------------------------------------------
(* Circuit breaker (its three keys in the store) and the risk gate *)

get_state(CB) ==
    IF CB.state \in {"closed", "open", "half_open"} THEN CB.state ELSE "closed"

is_open(CB) == get_state(CB) = "open"

trip_overwrites(CB, reason, t) == [state |-> "open", reason |-> reason, tripped_at |-> t]

trip(CB, reason, t) ==
    IF is_open(CB) THEN CB
    ELSE [state |-> "open", reason |-> reason, tripped_at |-> t]

reset(CB) == [state |-> "closed", reason |-> "", tripped_at |-> -1]

check_consecutive_losses(CB, consecutive_losses, t) ==
    IF consecutive_losses >= max_consecutive_losses
    THEN trip(CB, "consecutive_losses", t)
    ELSE CB

\* the alerts a trip(reason) call sends (alert_circuit_breaker, line 57)
trip_alerts(CB, reason) == IF is_open(CB) THEN <<>> ELSE <<reason>>

auto_reset_check_strict(CB, t) ==
    IF ~is_open(CB) THEN [cb |-> CB, ret |-> FALSE]
    ELSE IF CB.tripped_at < 0 THEN [cb |-> CB, ret |-> FALSE]
    ELSE IF t - CB.tripped_at > cooldown_seconds THEN [cb |-> reset(CB), ret |-> TRUE]
    ELSE [cb |-> CB, ret |-> FALSE]

\* the breaker after the call and the returned flag
auto_reset_check(CB, t) ==
    IF ~is_open(CB) THEN [cb |-> CB, ret |-> FALSE]
    ELSE IF CB.tripped_at < 0 THEN [cb |-> CB, ret |-> FALSE]
    ELSE IF t - CB.tripped_at >= cooldown_seconds THEN [cb |-> reset(CB), ret |-> TRUE]
    ELSE [cb |-> CB, ret |-> FALSE]

\* RiskLimits: each check returns (allowed, reason); amounts in dollars,
\* shares of the portfolio and drawdown in percent
Passed == [allowed |-> TRUE, reason |-> "OK"]

Denied(reason) == [allowed |-> FALSE, reason |-> reason]

check_daily_loss_limit(current_loss) ==
    IF Abs(current_loss) >= max_daily_loss THEN Denied("daily_loss") ELSE Passed

check_weekly_loss_limit(current_loss) ==
    IF Abs(current_loss) >= max_weekly_loss THEN Denied("weekly_loss") ELSE Passed

check_position_size(order_size_usd, portfolio_value) ==
    IF order_size_usd > max_position_size_usd THEN Denied("position_size")
    ELSE IF portfolio_value > 0 /\ order_size_usd * 100 > max_position_pct * portfolio_value
    THEN Denied("position_pct")
    ELSE Passed

check_max_positions(current_positions) ==
    IF current_positions >= max_open_positions THEN Denied("max_positions") ELSE Passed

check_drawdown_limit(current_drawdown_pct) ==
    IF current_drawdown_pct >= max_drawdown_pct THEN Denied("drawdown") ELSE Passed

can_open_position_drawdown_first(order_size_usd, portfolio_value, current_positions, daily_pnl, weekly_pnl, current_drawdown_pct) ==
    IF ~check_drawdown_limit(current_drawdown_pct).allowed
    THEN check_drawdown_limit(current_drawdown_pct)
    ELSE IF ~check_daily_loss_limit(daily_pnl).allowed
    THEN check_daily_loss_limit(daily_pnl)
    ELSE IF ~check_weekly_loss_limit(weekly_pnl).allowed
    THEN check_weekly_loss_limit(weekly_pnl)
    ELSE IF ~check_position_size(order_size_usd, portfolio_value).allowed
    THEN check_position_size(order_size_usd, portfolio_value)
    ELSE IF ~check_max_positions(current_positions).allowed
    THEN check_max_positions(current_positions)
    ELSE [allowed |-> TRUE, reason |-> "All risk checks passed"]

can_open_position(order_size_usd, portfolio_value, current_positions, daily_pnl, weekly_pnl, current_drawdown_pct) ==
    IF ~check_daily_loss_limit(daily_pnl).allowed
    THEN check_daily_loss_limit(daily_pnl)
    ELSE IF ~check_weekly_loss_limit(weekly_pnl).allowed
    THEN check_weekly_loss_limit(weekly_pnl)
    ELSE IF ~check_position_size(order_size_usd, portfolio_value).allowed
    THEN check_position_size(order_size_usd, portfolio_value)
    ELSE IF ~check_max_positions(current_positions).allowed
    THEN check_max_positions(current_positions)
    ELSE IF ~check_drawdown_limit(current_drawdown_pct).allowed
    THEN check_drawdown_limit(current_drawdown_pct)
    ELSE [allowed |-> TRUE, reason |-> "All risk checks passed"]

\* validate_trade_timing(STATE.last_trade_timestamp) at time t
validate_trade_timing(last_trade_ts, t) ==
    IF last_trade_ts = 0 THEN Passed
    ELSE IF t - last_trade_ts < TRADE_COOLDOWN_S THEN Denied("cooldown")
    ELSE Passed

\* The decision handed to the risk engine, and None
Decision(action) == [decision |-> action, suggested_size_usd |-> 0]

NoDecision == [decision |-> "none", suggested_size_usd |-> 0]

\* _adjust_position_size: a buy gets the size the sizing rule computed
adjust_position_size(decision, optimal_size) ==
    IF decision.decision # "buy" THEN decision
    ELSE [decision EXCEPT !.suggested_size_usd = optimal_size]

\* pre_trade_checks after the breaker (lines 64-130): the limits for a buy, the
\* order book checks when an order book was fetched, the trade cooldown
limit_checks(action, m, orderbook, last_trade_ts, t) ==
    LET c == IF action = "buy"
             THEN can_open_position(ORDER_USD, m.portfolio_value, m.current_positions,
                                    m.daily_pnl, m.weekly_pnl, m.current_drawdown_pct)
             ELSE Passed
    IN IF ~c.allowed THEN c
       ELSE IF orderbook = "bad" THEN Denied("orderbook")
       ELSE validate_trade_timing(last_trade_ts, t)

pre_trade_checks_no_breaker(decision, CB, consecutive_losses, t, rest, optimal_size) ==
    IF decision.decision = "hold"
    THEN [allowed |-> TRUE, reason |-> "OK", decision |-> decision, cb |-> CB]
    ELSE IF ~rest.allowed
    THEN [allowed |-> FALSE, reason |-> rest.reason, decision |-> NoDecision, cb |-> CB]
    ELSE [allowed |-> TRUE, reason |-> "All risk checks passed",
          decision |-> adjust_position_size(decision, optimal_size), cb |-> CB]

pre_trade_checks_hold_checked(decision, CB, consecutive_losses, t, rest, optimal_size) ==
    IF is_open(CB)
    THEN [allowed |-> FALSE, reason |-> "Circuit breaker is open",
          decision |-> NoDecision, cb |-> CB]
    ELSE LET CB2 == check_consecutive_losses(auto_reset_check(CB, t).cb, consecutive_losses, t)
         IN IF is_open(CB2)
            THEN [allowed |-> FALSE, reason |-> "Circuit breaker triggered during checks",
                  decision |-> NoDecision, cb |-> CB2]
            ELSE IF ~rest.allowed
            THEN [allowed |-> FALSE, reason |-> rest.reason, decision |-> NoDecision,
                  cb |-> CB2]
            ELSE [allowed |-> TRUE, reason |-> "All risk checks passed",
                  decision |-> adjust_position_size(decision, optimal_size), cb |-> CB2]

\* RiskEngine.pre_trade_checks; rest is the outcome of the limit, order book and
\* timing checks that follow the breaker (lines 64-130), optimal_size the size
\* the sizing rule computes (lines 132-133)
pre_trade_checks(decision, CB, consecutive_losses, t, rest, optimal_size) ==
    IF decision.decision = "hold"
    THEN [allowed |-> TRUE, reason |-> "OK", decision |-> decision, cb |-> CB]
    ELSE IF is_open(CB)
    THEN [allowed |-> FALSE, reason |-> "Circuit breaker is open",
          decision |-> NoDecision, cb |-> CB]
    ELSE LET CB1 == auto_reset_check(CB, t).cb
             CB2 == check_consecutive_losses(CB1, consecutive_losses, t)
         IN IF is_open(CB2)
            THEN [allowed |-> FALSE, reason |-> "Circuit breaker triggered during checks",
                  decision |-> NoDecision, cb |-> CB2]
            ELSE IF ~rest.allowed
            THEN [allowed |-> FALSE, reason |-> rest.reason, decision |-> NoDecision,
                  cb |-> CB2]
            ELSE [allowed |-> TRUE, reason |-> "All risk checks passed",
                  decision |-> adjust_position_size(decision, optimal_size), cb |-> CB2]

record_trade_result(S, sign) ==
    IF sign > 0 THEN [S EXCEPT !.wins = @ + 1, !.losses = 0]
    ELSE IF sign < 0 THEN [S EXCEPT !.wins = 0, !.losses = @ + 1]
    ELSE S

\* The trade a placed order reports back: whether it realized a PnL and its sign,
\* and whether the day's loss or the drawdown then stands at its cap.
TradeResults ==
    [ok : BOOLEAN, has_pnl : BOOLEAN, sign : {-1, 0, 1},
     daily_pnl : {0, -max_daily_loss, max_daily_loss},
     current_dd_pct : {0, max_drawdown_pct}]

check_daily_loss(CB, daily_loss, limit, t) ==
    IF Abs(daily_loss) >= limit THEN trip(CB, "daily_loss", t) ELSE CB

check_drawdown(CB, drawdown_pct, limit_pct, t) ==
    IF drawdown_pct >= limit_pct THEN trip(CB, "drawdown", t) ELSE CB

post_trade_update_streak_only(CB, S, trade, t) ==
    IF ~trade.has_pnl
    THEN [cb |-> CB, streak |-> [S EXCEPT !.last_trade_timestamp = t]]
    ELSE [cb |-> CB,
          streak |-> [record_trade_result(S, trade.sign) EXCEPT !.last_trade_timestamp = t]]

\* RiskEngine.post_trade_update: the streak, the breaker and the last-trade
\* timestamp after a trade
post_trade_update(CB, S, trade, t) ==
    IF ~trade.has_pnl
    THEN [cb |-> CB, streak |-> [S EXCEPT !.last_trade_timestamp = t]]
    ELSE LET CB1 == check_daily_loss(CB, trade.daily_pnl, max_daily_loss, t)
             CB2 == check_drawdown(CB1, trade.current_dd_pct, max_drawdown_pct, t)
         IN [cb |-> CB2,
             streak |-> [record_trade_result(S, trade.sign)
                            EXCEPT !.last_trade_timestamp = t]]

----------------------------------------------------------------------------
(* /agent/tick: the overlap guard around agent_tick_internal (SpecTick).    *)
(* What the scan, the decision engine and the placed order return is the    *)
(* environment's choice; the ledger is not followed here.                   *)

acquire_always(lock, r) == [ok |-> TRUE, lock |-> r]

\* _TICK_LOCK.acquire(blocking=False)
acquire(lock, r) ==
    IF lock = NoOne THEN [ok |-> TRUE, lock |-> r] ELSE [ok |-> FALSE, lock |-> lock]

Running == {"exits", "scan", "risk", "execute", "finish"}

TickRequest(r) ==
    /\ req[r].pc = "idle"
    /\ LET a == acquire(tick_lock, r) IN
       IF a.ok
       THEN /\ tick_count < MaxTicks
            /\ tick_lock' = a.lock
            /\ req' = [req EXCEPT ![r] = [NoReq EXCEPT !.pc = "exits"]]
       ELSE /\ tick_lock' = a.lock
            /\ req' = [req EXCEPT ![r] = [NoReq EXCEPT !.ok = FALSE,
                                                       !.result = "tick_in_progress"]]
    /\ UNCHANGED <<cb, streak, tick_count, tick_errors, placed>>
    /\ UNCHANGED <<LEDGER, redis_ledger, LIVE_LEDGER, drawdown, last, prev, calls>>
    /\ UNCHANGED execVars

\* agent_tick_internal up to the decision (lines 96-233)
\* agent_tick_internal: process_fills and _check_position_exits (lines 96-122);
\* realized is the sign of the PnL that the fills and the forced-exit sells of
\* this tick realized, 0 when there was none
TickExits(r) ==
    /\ req[r].pc = "exits"
    /\ \E realized \in {-1, 0, 1} :
        req' = [req EXCEPT ![r] = [@ EXCEPT !.pc = "scan", !.realized = realized]]
    /\ UNCHANGED <<cb, streak, tick_lock, tick_count, tick_errors, placed>>
    /\ UNCHANGED <<LEDGER, redis_ledger, LIVE_LEDGER, drawdown, last, prev, calls>>
    /\ UNCHANGED execVars

TickScan(r) ==
    /\ req[r].pc = "scan"
    /\ \E outcome \in {"exception", "no_market", "max_positions", "hold", "buy", "sell"} :
        req' = [req EXCEPT ![r] =
                  IF outcome \in {"exception", "no_market"}
                  THEN [@ EXCEPT !.pc = "finish", !.ok = FALSE, !.result = outcome]
                  ELSE IF outcome \in {"max_positions", "hold"}
                  THEN [@ EXCEPT !.pc = "finish", !.ok = TRUE, !.result = "hold"]
                  ELSE [@ EXCEPT !.pc = "risk", !.decision = outcome]]
    /\ UNCHANGED <<cb, streak, tick_lock, tick_count, tick_errors, placed>>
    /\ UNCHANGED <<LEDGER, redis_ledger, LIVE_LEDGER, drawdown, last, prev, calls>>
    /\ UNCHANGED execVars

\* agent_tick_internal: risk_engine.pre_trade_checks (lines 235-262)
TickRisk(r) ==
    /\ req[r].pc = "risk"
    /\ \E rest \in {Passed, Denied("check failed")} :
        LET c == pre_trade_checks(Decision(req[r].decision), cb, streak.losses, now,
                                  rest, ORDER_USD) IN
        /\ cb' = c.cb
        /\ req' = [req EXCEPT ![r] =
                     IF c.allowed
                     THEN [@ EXCEPT !.pc = "execute", !.allowed = TRUE,
                                    !.cb_seen = get_state(cb)]
                     ELSE [@ EXCEPT !.pc = "finish", !.allowed = FALSE,
                                    !.cb_seen = get_state(cb), !.ok = TRUE,
                                    !.result = "hold"]]
    /\ UNCHANGED <<streak, tick_lock, tick_count, tick_errors, placed>>
    /\ UNCHANGED <<LEDGER, redis_ledger, LIVE_LEDGER, drawdown, last, prev, calls>>
    /\ UNCHANGED execVars

\* agent_tick_internal: _execute_trade and post_trade_update (lines 264-291)
TickExecute(r) ==
    /\ req[r].pc = "execute"
    /\ \E trade \in TradeResults :
        /\ trade.has_pnl => req[r].decision = "sell"
        /\ LET u == IF trade.ok THEN post_trade_update(cb, streak, trade, now)
                    ELSE [cb |-> cb, streak |-> streak]
           IN /\ cb' = u.cb
              /\ streak' = u.streak
        /\ placed' = IF trade.ok THEN placed + 1 ELSE placed
    /\ req' = [req EXCEPT ![r] = [@ EXCEPT !.pc = "finish", !.ok = TRUE,
                                           !.result = req[r].decision]]
    /\ UNCHANGED <<tick_lock, tick_count, tick_errors>>
    /\ UNCHANGED <<LEDGER, redis_ledger, LIVE_LEDGER, drawdown, last, prev, calls>>
    /\ UNCHANGED execVars

\* agent_tick: record the outcome, release the lock (lines 242-258)
TickFinish(r) ==
    /\ req[r].pc = "finish"
    /\ tick_count' = tick_count + 1
    /\ tick_errors' = IF req[r].ok THEN tick_errors ELSE tick_errors + 1
    /\ tick_lock' = NoOne
    /\ req' = [req EXCEPT ![r].pc = "idle"]
    /\ UNCHANGED <<cb, streak, placed>>
    /\ UNCHANGED <<LEDGER, redis_ledger, LIVE_LEDGER, drawdown, last, prev, calls>>
    /\ UNCHANGED execVars

\* scripts/reset_state.py: cb.reset()
ResetBreaker ==
    /\ cb' = reset(cb)
    /\ UNCHANGED <<streak, tick_lock, req, tick_count, tick_errors, placed>>
    /\ UNCHANGED <<LEDGER, redis_ledger, LIVE_LEDGER, drawdown, last, prev, calls>>
    /\ UNCHANGED execVars

NextTick ==
    \/ \E r \in Requests : TickRequest(r)
    \/ \E r \in Requests : TickExits(r)
    \/ \E r \in Requests : TickScan(r)
    \/ \E r \in Requests : TickRisk(r)
    \/ \E r \in Requests : TickExecute(r)
    \/ \E r \in Requests : TickFinish(r)
    \/ ResetBreaker

SpecTick == Init /\ [][NextTick]_vars

----------------------------------------------------------------------------
(* Claims about the tick *)

\* C6: while the circuit breaker is open, pre_trade_checks denies every buy or
\* sell decision, so a tick never gets to place an order from a decision while
\* the breaker is open.
C6_OpenBreakerDeniesTrades ==
    /\ \A r \in Requests :
          (req[r].pc \in {"execute", "finish"} /\ req[r].decision \in {"buy", "sell"}
           /\ req[r].cb_seen = "open")
          => ~req[r].allowed
    /\ \A r \in Requests : req[r].pc = "execute" => ~is_open(cb)

\* C6 witness: a tick met an open breaker with a buy or sell decision.
C6_Witness ==
    \E r \in Requests :
        /\ req[r].pc = "finish"
        /\ req[r].decision \in {"buy", "sell"}
        /\ req[r].cb_seen = "open"
        /\ is_open(cb)

\* C7: at most one tick cycle runs at a time; a request that finds the lock held
\* returns tick_in_progress at once, runs nothing and records neither a success
\* nor an error.
C7_SingleTickNoQueue ==
    /\ [](\A r \in Requests : req[r].pc \in Running => tick_lock = r)
    /\ [][\A r \in Requests :
            (req[r].pc = "idle" /\ req'[r] # req[r] /\ tick_lock # NoOne)
            => /\ req'[r].pc = "idle"
               /\ req'[r].result = "tick_in_progress"
               /\ UNCHANGED <<cb, streak, tick_lock, tick_count, tick_errors, placed>>]_vars

\* C7 witness: a request was turned away while another cycle was running.
C7_Witness ==
    \E r, q \in Requests :
        /\ r # q
        /\ req[r].result = "tick_in_progress"
        /\ req[q].pc \in Running

\* C25: the risk state is updated after every completed trade: a tick whose
\* fills or forced-exit sells realized a PnL, and that placed no further trade,
\* ends with the streak counters showing that PnL (a loss: losses at least 1
\* and wins 0; a gain: wins at least 1 and losses 0).
C25_RealizedPnlReachesStreak ==
    \A r \in Requests :
        (req[r].pc = "finish" /\ req[r].result \notin {"buy", "sell"})
        => /\ req[r].realized < 0 => (streak.losses > 0 /\ streak.wins = 0)
           /\ req[r].realized > 0 => (streak.wins > 0 /\ streak.losses = 0)

----------------------------------------------------------------------------
(* The risk gate called directly: pre_trade_checks and can_open_position on  *)
(* any decision and any figures (SpecLimits), and pre_trade_checks between    *)
(* trades that move the streaks, the breaker and the last-trade timestamp     *)
(* (SpecRisk).                                                                *)

\* daily and weekly PnL, portfolio value, open positions, drawdown
LimitInputs ==
    [daily_pnl : {0, -max_daily_loss}, weekly_pnl : {0, -max_weekly_loss},
     portfolio_value : {4 * ORDER_USD, InitialCashUsd},
     current_positions : {0, max_open_positions},
     current_drawdown_pct : {0, max_drawdown_pct}]

\* figures within every limit, and the same with the day's loss at its cap
CalmInputs ==
    {m \in LimitInputs :
        /\ m.weekly_pnl = 0 /\ m.portfolio_value = InitialCashUsd
        /\ m.current_positions = 0 /\ m.current_drawdown_pct = 0}

OrderSizes == {ORDER_USD, max_position_size_usd + ORDER_USD}

RiskCall(op, action, order_size_usd, m, orderbook, result, cb_before) ==
    [op |-> op, action |-> action, order_size_usd |-> order_size_usd, m |-> m,
     orderbook |-> orderbook, result |-> result, cb_before |-> cb_before]

Actions == {"hold", "buy", "sell"}

\* risk_engine.pre_trade_checks(decision, ledger, orderbook) with a decision
\* from A and figures from M
PreTradeChecksOn(A, M) ==
    /\ \E action \in A, m \in M, orderbook \in {"ok", "bad"} :
        LET rest == limit_checks(action, m, orderbook, streak.last_trade_timestamp, now)
            r == pre_trade_checks(Decision(action), cb, streak.losses, now, rest, ORDER_USD)
        IN /\ cb' = r.cb
           /\ last' = RiskCall("pre_trade_checks", action, ORDER_USD, m, orderbook,
                               [allowed |-> r.allowed, reason |-> r.reason,
                                decision |-> r.decision],
                               cb)
    /\ UNCHANGED <<streak, tick_lock, req, tick_count, tick_errors, placed>>
    /\ UNCHANGED <<LEDGER, redis_ledger, LIVE_LEDGER, drawdown, prev, calls>>
    /\ UNCHANGED execVars

PreTradeChecks == PreTradeChecksOn(Actions, LimitInputs)

PreTradeChecksCalm == PreTradeChecksOn(Actions, CalmInputs)

CanOpenPosition ==
    /\ \E order_size_usd \in OrderSizes, m \in LimitInputs :
        last' = RiskCall("can_open_position", "buy", order_size_usd, m, "ok",
                         can_open_position(order_size_usd, m.portfolio_value,
                                           m.current_positions, m.daily_pnl,
                                           m.weekly_pnl, m.current_drawdown_pct),
                         cb)
    /\ UNCHANGED tickVars
    /\ UNCHANGED <<LEDGER, redis_ledger, LIVE_LEDGER, drawdown, prev, calls>>
    /\ UNCHANGED execVars

NextLimits ==
    \/ PreTradeChecks
    \/ CanOpenPosition

SpecLimits == Init /\ [][NextLimits]_vars

\* risk_engine.post_trade_update after a trade that went through
PostTradeUpdate ==
    /\ streak.wins < MaxStreak
    /\ streak.losses < MaxStreak
    /\ \E trade \in TradeResults :
        /\ trade.ok
        /\ LET u == post_trade_update(cb, streak, trade, now) IN
           /\ cb' = u.cb
           /\ streak' = u.streak
    /\ UNCHANGED <<tick_lock, req, tick_count, tick_errors, placed>>
    /\ UNCHANGED <<LEDGER, redis_ledger, LIVE_LEDGER, drawdown, last, prev, calls>>
    /\ UNCHANGED execVars

NextRisk ==
    \/ PreTradeChecksCalm
    \/ PostTradeUpdate
    \/ ResetBreaker
    \/ AdvanceTime

SpecRisk == Init /\ [][NextRisk]_vars

----------------------------------------------------------------------------
(* Claims about the risk gate *)

HoldChecked == last.op = "pre_trade_checks" /\ last.action = "hold"

\* C19: pre_trade_checks on a hold decision returns allowed = true with the
\* decision unchanged, whatever the breaker's state, and the call leaves the
\* breaker, the streaks and the last-trade timestamp as they were.
C19_HoldPassesUnchanged ==
    /\ [](HoldChecked => /\ last.result.allowed
                         /\ last.result.decision = Decision("hold"))
    /\ [][(HoldChecked' /\ last' # last) => UNCHANGED <<cb, streak>>]_vars

\* C19 witness: a hold went through the gate while the breaker was open, after
\* a trade had been recorded.
C19_Witness ==
    /\ HoldChecked
    /\ is_open(last.cb_before)
    /\ is_open(cb)
    /\ streak.last_trade_timestamp > 0

\* the limit checks of the last call in the claimed order, each with its verdict
LimitVerdicts ==
    <<check_daily_loss_limit(last.m.daily_pnl),
      check_weekly_loss_limit(last.m.weekly_pnl),
      IF last.order_size_usd > max_position_size_usd
      THEN Denied("position_size") ELSE Passed,
      IF last.m.portfolio_value > 0
         /\ last.order_size_usd * 100 > max_position_pct * last.m.portfolio_value
      THEN Denied("position_pct") ELSE Passed,
      check_max_positions(last.m.current_positions),
      check_drawdown_limit(last.m.current_drawdown_pct)>>

FailingLimits == {i \in DOMAIN LimitVerdicts : ~LimitVerdicts[i].allowed}

FirstFailing == CHOOSE i \in FailingLimits : \A j \in FailingLimits : i <= j

LimitReasons == {"daily_loss", "weekly_loss", "position_size", "position_pct",
                 "max_positions", "drawdown"}

\* the breaker let the last pre_trade_checks call through to the limits
ReachedLimits ==
    /\ last.op = "pre_trade_checks"
    /\ last.action # "hold"
    /\ ~is_open(last.cb_before)
    /\ last.result.reason # "Circuit breaker triggered during checks"

\* C20: for a buy the limits are evaluated in the order daily loss, weekly loss,
\* position size (absolute, then percent of portfolio), open positions,
\* drawdown; a denial carries the reason of the first failing check and the buy
\* is allowed only if all pass; a sell is not subject to these limits.
C20_LimitsInFixedOrder ==
    /\ last.op = "can_open_position"
       => IF FailingLimits = {}
          THEN last.result.allowed
          ELSE /\ ~last.result.allowed
               /\ last.result.reason = LimitVerdicts[FirstFailing].reason
    /\ (ReachedLimits /\ last.action = "buy")
       => IF FailingLimits = {}
          THEN last.result.reason \notin LimitReasons
          ELSE /\ ~last.result.allowed
               /\ last.result.reason = LimitVerdicts[FirstFailing].reason
    /\ (ReachedLimits /\ last.action = "sell")
       => /\ last.result.reason \notin LimitReasons
          /\ last.result.allowed = (last.orderbook = "ok")

\* C20 witness: a buy was denied for its share of the portfolio although the
\* open-positions and drawdown caps were exceeded too.
C20_Witness ==
    /\ ReachedLimits
    /\ last.action = "buy"
    /\ Cardinality(FailingLimits) >= 3
    /\ last.result.reason = "position_pct"

----------------------------------------------------------------------------
(* post_trade_update called directly, each call on record (SpecPostTrade)   *)

PostCall(trade, t, cb_before, streak_before, cb_after, streak_after) ==
    [op |-> "post_trade_update", trade |-> trade, t |-> t, cb_before |-> cb_before,
     streak_before |-> streak_before, cb_after |-> cb_after,
     streak_after |-> streak_after]

PostTradeUpdateCall ==
    /\ streak.wins < MaxStreak
    /\ streak.losses < MaxStreak
    /\ \E trade \in TradeResults :
        /\ trade.ok
        /\ LET u == post_trade_update(cb, streak, trade, now) IN
           /\ cb' = u.cb
           /\ streak' = u.streak
           /\ last' = PostCall(trade, now, cb, streak, u.cb, u.streak)
    /\ UNCHANGED <<tick_lock, req, tick_count, tick_errors, placed>>
    /\ UNCHANGED <<LEDGER, redis_ledger, LIVE_LEDGER, drawdown, prev, calls>>
    /\ UNCHANGED execVars

NextPostTrade ==
    \/ PostTradeUpdateCall
    \/ ResetBreaker
    \/ AdvanceTime

SpecPostTrade == Init /\ [][NextPostTrade]_vars

PostTraded == last.op = "post_trade_update"

\* C24: post_trade_update for a trade that reports a realized PnL updates the
\* streak (a gain: wins + 1 and losses 0; a loss: losses + 1 and wins 0), leaves
\* the breaker open if the day's loss has reached the daily-loss cap or the
\* drawdown has reached the drawdown cap, and stamps the last-trade timestamp;
\* for a trade without PnL the streaks and the breaker are as before.
C24_PostTradeUpdate ==
    PostTraded =>
        LET c == last
            S == c.streak_before
            T == c.streak_after
        IN /\ T.last_trade_timestamp = c.t
           /\ IF c.trade.has_pnl
              THEN /\ c.trade.sign > 0 => (T.wins = S.wins + 1 /\ T.losses = 0)
                   /\ c.trade.sign < 0 => (T.losses = S.losses + 1 /\ T.wins = 0)
                   /\ (\/ c.trade.daily_pnl <= -max_daily_loss
                       \/ c.trade.current_dd_pct >= max_drawdown_pct)
                        => is_open(c.cb_after)
                   /\ is_open(c.cb_before) => c.cb_after = c.cb_before
              ELSE /\ T.wins = S.wins /\ T.losses = S.losses
                   /\ c.cb_after = c.cb_before

\* a loss that takes the day to its cap trips a closed breaker, after a win
C24_Witness ==
    /\ PostTraded
    /\ last.trade.has_pnl /\ last.trade.sign < 0
    /\ last.trade.daily_pnl = -max_daily_loss
    /\ last.streak_before.wins > 0
    /\ ~is_open(last.cb_before)
    /\ is_open(cb) /\ cb.reason = "daily_loss" /\ cb.tripped_at = last.t
    /\ last.t > 0

----------------------------------------------------------------------------
(* DrawdownMonitor called directly from an empty store (SpecDrawdown);      *)
(* equity in whole dollars                                                   *)

Equities == {80, 100, 120}

calculate_current_drawdown(current_equity, peak_equity) ==
    IF peak_equity <= 0 THEN 0 ELSE Max(0, peak_equity - current_equity)

\* DrawdownMonitor.update_equity: the keys after the call
update_equity(D, current_equity) ==
    LET peak == IF D.peak_equity # NoValue THEN D.peak_equity ELSE current_equity
        D1 == IF current_equity > peak THEN [D EXCEPT !.peak_equity = current_equity] ELSE D
        current_dd == calculate_current_drawdown(current_equity, peak)
        D2 == [D1 EXCEPT !.current = current_dd]
        max_dd == IF D2.max # NoValue THEN D2.max ELSE 0
    IN IF current_dd > max_dd THEN [D2 EXCEPT !.max = current_dd] ELSE D2

\* in percent
get_current_drawdown_pct(D) ==
    LET current_dd == IF D.current # NoValue THEN D.current ELSE 0
        peak == IF D.peak_equity # NoValue THEN D.peak_equity ELSE 0
    IN IF peak <= 0 THEN 0 ELSE (current_dd * 100) \div peak

reset_drawdown(D) == EmptyDrawdown

\* seen: the equities passed to update_equity since the store was last empty
DrawdownCall(op, seen) == [op |-> op, seen |-> seen]

SeenEquities == IF last.op = "update_equity" THEN last.seen ELSE <<>>

UpdateEquity ==
    /\ Len(SeenEquities) < MaxEquities
    /\ \E current_equity \in Equities :
        /\ drawdown' = update_equity(drawdown, current_equity)
        /\ last' = DrawdownCall("update_equity", Append(SeenEquities, current_equity))
    /\ UNCHANGED <<LEDGER, redis_ledger, LIVE_LEDGER, prev, calls>>
    /\ UNCHANGED execVars
    /\ UNCHANGED tickVars

ResetDrawdown ==
    /\ drawdown' = reset_drawdown(drawdown)
    /\ last' = DrawdownCall("reset_drawdown", <<>>)
    /\ UNCHANGED <<LEDGER, redis_ledger, LIVE_LEDGER, prev, calls>>
    /\ UNCHANGED execVars
    /\ UNCHANGED tickVars

NextDrawdown ==
    \/ UpdateEquity
    \/ ResetDrawdown

SpecDrawdown == Init /\ [][NextDrawdown]_vars

RECURSIVE PeakOf(_)
PeakOf(seen) ==
    IF Len(seen) = 1 THEN seen[1]
    ELSE Max(PeakOf(SubSeq(seen, 1, Len(seen) - 1)), seen[Len(seen)])

DrawdownAt(seen) == Max(0, PeakOf(seen) - seen[Len(seen)])

RECURSIVE MaxDrawdownOf(_)
MaxDrawdownOf(seen) ==
    IF Len(seen) = 1 THEN 0
    ELSE Max(MaxDrawdownOf(SubSeq(seen, 1, Len(seen) - 1)), DrawdownAt(seen))

\* C26: after any sequence of update_equity calls from an empty store, the
\* stored peak equity is the largest value seen, the stored current drawdown is
\* max(0, peak - last value), and the stored maximum drawdown is the largest
\* current drawdown seen so far.
C26_DrawdownTracksPeak ==
    last.op = "update_equity" =>
        /\ drawdown.peak_equity = PeakOf(last.seen)
        /\ drawdown.current = DrawdownAt(last.seen)
        /\ (IF drawdown.max # NoValue THEN drawdown.max ELSE 0) = MaxDrawdownOf(last.seen)

----------------------------------------------------------------------------
(* Kelly sizing as pure functions (SpecKelly): win rate, confidence and      *)
(* risk in percent, averages and portfolio value in dollars, sizes in cents  *)

Cents == 100

\* round(x, 2) of n/d dollars, in cents: to the nearest, a tie to the even cent
RoundHalfEven(n, d) ==
    LET q == n \div d
        r == n % d
    IN IF 2 * r > d THEN q + 1
       ELSE IF 2 * r < d THEN q
       ELSE IF q % 2 = 0 THEN q ELSE q + 1

ClampSize_no_max(x) == Max(min_position_size * Cents, x)

\* max(min_position_size, x) then min(max_position_size, .)
ClampSize(x) == Min(max_position_size * Cents, Max(min_position_size * Cents, x))

\* kelly_pct = (b*p - q)/b with b = avg_win/avg_loss is KellyNum/(100*avg_win),
\* and kelly_pct * kelly_fraction is KellyNum/KellyDen
KellyDen(avg_win) == ((100 * 100) \div kelly_fraction) * avg_win

KellyNum(win_rate, avg_win, avg_loss) == win_rate * avg_win - (100 - win_rate) * avg_loss

calculate_position_size_no_edge_test(win_rate, avg_win, avg_loss, portfolio_value) ==
    IF win_rate <= 0 \/ win_rate >= 100 THEN min_position_size * Cents
    ELSE IF avg_loss <= 0 \/ avg_win <= 0 THEN min_position_size * Cents
    ELSE LET den == KellyDen(avg_win)
             num == Min(KellyNum(win_rate, avg_win, avg_loss), den \div 2)
         IN ClampSize(RoundHalfEven(portfolio_value * Cents * num, den))

calculate_position_size(win_rate, avg_win, avg_loss, portfolio_value) ==
    IF win_rate <= 0 \/ win_rate >= 100 THEN min_position_size * Cents
    ELSE IF avg_loss <= 0 \/ avg_win <= 0 THEN min_position_size * Cents
    ELSE IF KellyNum(win_rate, avg_win, avg_loss) <= 0 THEN 0
    ELSE LET den == KellyDen(avg_win)
             num == Min(KellyNum(win_rate, avg_win, avg_loss), den \div 2)
         IN ClampSize(RoundHalfEven(portfolio_value * Cents * num, den))

calculate_with_confidence(win_rate, avg_win, avg_loss, portfolio_value, confidence) ==
    LET base_size == calculate_position_size(win_rate, avg_win, avg_loss, portfolio_value)
    IN IF base_size = 0 THEN 0
       ELSE ClampSize(RoundHalfEven(base_size * (100 + confidence), 200))

simple_position_size(portfolio_value, risk_pct, confidence) ==
    ClampSize(RoundHalfEven(portfolio_value * risk_pct * (100 + confidence), 200))

WinRates == {0, 30, 50, 70, 100}
Averages == {0, 10, 20}
PortfolioValues == {-100, 0, 100, 1000}
Confidences == {0, 70, 100, 300}

KellyCall(op, win_rate, avg_win, avg_loss, portfolio_value, confidence, ret) ==
    [op |-> op, win_rate |-> win_rate, avg_win |-> avg_win, avg_loss |-> avg_loss,
     portfolio_value |-> portfolio_value, confidence |-> confidence, ret |-> ret]

CalculatePositionSize ==
    /\ \E win_rate \in WinRates, avg_win \in Averages, avg_loss \in Averages,
          portfolio_value \in PortfolioValues :
        last' = KellyCall("calculate_position_size", win_rate, avg_win, avg_loss,
                          portfolio_value, 100,
                          calculate_position_size(win_rate, avg_win, avg_loss,
                                                  portfolio_value))
    /\ UNCHANGED <<LEDGER, redis_ledger, LIVE_LEDGER, drawdown, prev, calls>>
    /\ UNCHANGED execVars
    /\ UNCHANGED tickVars

CalculateWithConfidence ==
    /\ \E win_rate \in WinRates, avg_win \in Averages, avg_loss \in Averages,
          portfolio_value \in PortfolioValues, confidence \in Confidences :
        last' = KellyCall("calculate_with_confidence", win_rate, avg_win, avg_loss,
                          portfolio_value, confidence,
                          calculate_with_confidence(win_rate, avg_win, avg_loss,
                                                    portfolio_value, confidence))
    /\ UNCHANGED <<LEDGER, redis_ledger, LIVE_LEDGER, drawdown, prev, calls>>
    /\ UNCHANGED execVars
    /\ UNCHANGED tickVars

\* risk_pct at its default of 2 percent
SimplePositionSize ==
    /\ \E portfolio_value \in PortfolioValues, confidence \in Confidences :
        last' = KellyCall("simple_position_size", 0, 0, 0, portfolio_value, confidence,
                          simple_position_size(portfolio_value, 2, confidence))
    /\ UNCHANGED <<LEDGER, redis_ledger, LIVE_LEDGER, drawdown, prev, calls>>
    /\ UNCHANGED execVars
    /\ UNCHANGED tickVars

NextKelly ==
    \/ CalculatePositionSize
    \/ CalculateWithConfidence
    \/ SimplePositionSize

SpecKelly == Init /\ [][NextKelly]_vars

KellySized == last.op \in {"calculate_position_size", "calculate_with_confidence"}

KellyInputsValid ==
    /\ last.win_rate > 0 /\ last.win_rate < 100
    /\ last.avg_win > 0 /\ last.avg_loss > 0

\* f = (b*p - q)/b < 0 with b = avg_win/avg_loss, p the win rate and q = 1 - p
NegativeEdge == last.win_rate * last.avg_win < (100 - last.win_rate) * last.avg_loss

\* C27: Kelly sizing (calculate_position_size and calculate_with_confidence)
\* returns 0 whenever the fraction f = (b*p - q)/b is negative, for every win
\* rate strictly between 0 and 1 and positive average win and loss.
C27_NegativeEdgeZeroSize ==
    (KellySized /\ KellyInputsValid /\ NegativeEdge) => last.ret = 0

C27_Witness ==
    /\ last.op = "calculate_with_confidence"
    /\ KellyInputsValid /\ NegativeEdge
    /\ last.portfolio_value > 0 /\ last.confidence > 0
    /\ last.ret = 0

AnySized == KellySized \/ last.op = "simple_position_size"

WithinSizeBounds(x) == x >= min_position_size * Cents /\ x <= max_position_size * Cents

\* C28 as stated: Kelly sizing never returns a size outside the bounds
\* [min_position_size, max_position_size], whatever the win rate, the averages,
\* the portfolio value and the confidence.
C28_SizeWithinBounds == AnySized => WithinSizeBounds(last.ret)

\* C28 amended: Kelly sizing returns either 0, and that only for valid inputs
\* whose fraction f is zero or negative, or a size within the bounds
\* [min_position_size, max_position_size].
C28_SizeZeroOrWithinBounds ==
    AnySized =>
        IF KellySized /\ KellyInputsValid
              /\ last.win_rate * last.avg_win <= (100 - last.win_rate) * last.avg_loss
        THEN last.ret = 0
        ELSE WithinSizeBounds(last.ret)

\* the size is held at the upper bound where the sizing rule asks for more
C28_Witness ==
    /\ last.op = "calculate_position_size"
    /\ KellyInputsValid /\ ~NegativeEdge
    /\ last.portfolio_value * KellyNum(last.win_rate, last.avg_win, last.avg_loss)
          > max_position_size * KellyDen(last.avg_win)
    /\ last.ret = max_position_size * Cents

----------------------------------------------------------------------------
(* PositionManager.check_exit_conditions as a pure function of the          *)
(* positions, the current prices, exit_on_timeout and the clock (SpecExits); *)
(* a price of 0 stands for a price that could not be had                     *)

TokenOrder == <<"A", "B">>

ExitSignal(token_id, reason, qty, current_price) ==
    [token_id |-> token_id, reason |-> reason, qty |-> qty, current_price |-> current_price]

\* pnl_pct = (current_price - avg_price)/avg_price against a band in percent
PnlAtLeast(current_price, avg_price, pct) == (current_price - avg_price) * 100 >= pct * avg_price

PnlAtMost(current_price, avg_price, pct) == (current_price - avg_price) * 100 <= pct * avg_price

PnlAbove(current_price, avg_price, pct) == (current_price - avg_price) * 100 > pct * avg_price

HeldFor(pos, t) == t - (IF pos.opened_at # NoTime THEN pos.opened_at ELSE t)

\* every rule that matches fires
position_exits_all_rules(token_id, pos, current_price, exit_on_timeout, t) ==
    IF pos.avg_price <= 0 \/ pos.qty <= 0 THEN <<>>
    ELSE IF current_price <= 0
    THEN IF exit_on_timeout /\ HeldFor(pos, t) >= MAX_HOLD_S
         THEN <<ExitSignal(token_id, "timeout_no_price", pos.qty, pos.avg_price)>>
         ELSE <<>>
    ELSE (IF PnlAtLeast(current_price, pos.avg_price, TP_PCT)
          THEN <<ExitSignal(token_id, "take_profit", pos.qty, current_price)>> ELSE <<>>)
         \o (IF PnlAtMost(current_price, pos.avg_price, -SL_PCT)
             THEN <<ExitSignal(token_id, "stop_loss", pos.qty, current_price)>> ELSE <<>>)
         \o (IF exit_on_timeout /\ HeldFor(pos, t) >= MAX_HOLD_S
             THEN <<ExitSignal(token_id, "timeout", pos.qty, current_price)>> ELSE <<>>)

\* invalid positions are not skipped
position_exits_no_guard(token_id, pos, current_price, exit_on_timeout, t) ==
    IF current_price <= 0
    THEN IF exit_on_timeout /\ HeldFor(pos, t) >= MAX_HOLD_S
         THEN <<ExitSignal(token_id, "timeout_no_price", pos.qty, pos.avg_price)>>
         ELSE <<>>
    ELSE IF PnlAtLeast(current_price, pos.avg_price, TP_PCT)
    THEN <<ExitSignal(token_id, "take_profit", pos.qty, current_price)>>
    ELSE IF PnlAtMost(current_price, pos.avg_price, -SL_PCT)
    THEN <<ExitSignal(token_id, "stop_loss", pos.qty, current_price)>>
    ELSE IF exit_on_timeout /\ HeldFor(pos, t) >= MAX_HOLD_S
    THEN <<ExitSignal(token_id, "timeout", pos.qty, current_price)>>
    ELSE <<>>

\* a position without a price is passed over
position_exits_no_price_skipped(token_id, pos, current_price, exit_on_timeout, t) ==
    IF pos.avg_price <= 0 \/ pos.qty <= 0 THEN <<>>
    ELSE IF current_price <= 0 THEN <<>>
    ELSE IF PnlAtLeast(current_price, pos.avg_price, TP_PCT)
    THEN <<ExitSignal(token_id, "take_profit", pos.qty, current_price)>>
    ELSE IF PnlAtMost(current_price, pos.avg_price, -SL_PCT)
    THEN <<ExitSignal(token_id, "stop_loss", pos.qty, current_price)>>
    ELSE IF exit_on_timeout /\ HeldFor(pos, t) >= MAX_HOLD_S
    THEN <<ExitSignal(token_id, "timeout", pos.qty, current_price)>>
    ELSE <<>>

\* the take-profit band taken strictly
position_exits_strict_tp(token_id, pos, current_price, exit_on_timeout, t) ==
    IF pos.avg_price <= 0 \/ pos.qty <= 0 THEN <<>>
    ELSE IF current_price <= 0
    THEN IF exit_on_timeout /\ HeldFor(pos, t) >= MAX_HOLD_S
         THEN <<ExitSignal(token_id, "timeout_no_price", pos.qty, pos.avg_price)>>
         ELSE <<>>
    ELSE IF PnlAbove(current_price, pos.avg_price, TP_PCT)
    THEN <<ExitSignal(token_id, "take_profit", pos.qty, current_price)>>
    ELSE IF PnlAtMost(current_price, pos.avg_price, -SL_PCT)
    THEN <<ExitSignal(token_id, "stop_loss", pos.qty, current_price)>>
    ELSE IF exit_on_timeout /\ HeldFor(pos, t) >= MAX_HOLD_S
    THEN <<ExitSignal(token_id, "timeout", pos.qty, current_price)>>
    ELSE <<>>

\* the body of the loop for one position (lines 52-112): the signals it appends
position_exits(token_id, pos, current_price, exit_on_timeout, t) ==
    IF pos.avg_price <= 0 \/ pos.qty <= 0 THEN <<>>
    ELSE IF current_price <= 0
    THEN IF exit_on_timeout /\ HeldFor(pos, t) >= MAX_HOLD_S
         THEN <<ExitSignal(token_id, "timeout_no_price", pos.qty, pos.avg_price)>>
         ELSE <<>>
    ELSE IF PnlAtLeast(current_price, pos.avg_price, TP_PCT)
    THEN <<ExitSignal(token_id, "take_profit", pos.qty, current_price)>>
    ELSE IF PnlAtMost(current_price, pos.avg_price, -SL_PCT)
    THEN <<ExitSignal(token_id, "stop_loss", pos.qty, current_price)>>
    ELSE IF exit_on_timeout /\ HeldFor(pos, t) >= MAX_HOLD_S
    THEN <<ExitSignal(token_id, "timeout", pos.qty, current_price)>>
    ELSE <<>>

RECURSIVE exits_from(_, _, _, _, _)
exits_from(i, positions, current_prices, exit_on_timeout, t) ==
    IF i > Len(TokenOrder) THEN <<>>
    ELSE LET token_id == TokenOrder[i]
             rest == exits_from(i + 1, positions, current_prices, exit_on_timeout, t)
         IN IF token_id \in DOMAIN positions
            THEN position_exits(token_id, positions[token_id], current_prices[token_id],
                                exit_on_timeout, t) \o rest
            ELSE rest

\* current_prices holds, for every position, the price given or fetched
check_exit_conditions(positions, current_prices, exit_on_timeout, t) ==
    exits_from(1, positions, current_prices, exit_on_timeout, t)

\* a valid position with or without opened_at, one without a price, one without a quantity
PositionInputs ==
    [avg_price : {500000}, qty : {10}, opened_at : {NoTime, 0}]
        \cup {[avg_price |-> 0, qty |-> 10, opened_at |-> 0],
              [avg_price |-> 500000, qty |-> 0, opened_at |-> 0]}

ExitPrices == {0, 495000, 500000, 505000}

ExitCall(positions, current_prices, exit_on_timeout, t, ret) ==
    [op |-> "check_exit_conditions", positions |-> positions,
     current_prices |-> current_prices, exit_on_timeout |-> exit_on_timeout, t |-> t,
     ret |-> ret]

CheckExitConditions ==
    /\ \E S \in SUBSET Tokens, exit_on_timeout \in BOOLEAN :
        \E positions \in [S -> PositionInputs], current_prices \in [S -> ExitPrices] :
            last' = ExitCall(positions, current_prices, exit_on_timeout, now,
                             check_exit_conditions(positions, current_prices,
                                                   exit_on_timeout, now))
    /\ UNCHANGED <<LEDGER, redis_ledger, LIVE_LEDGER, drawdown, prev, calls>>
    /\ UNCHANGED execVars
    /\ UNCHANGED tickVars

NextExits ==
    \/ CheckExitConditions
    \/ AdvanceTime

SpecExits == Init /\ [][NextExits]_vars

ExitsChecked == last.op = "check_exit_conditions"

\* a valid position with a current price
Priced(tk) ==
    /\ tk \in DOMAIN last.positions
    /\ last.positions[tk].avg_price > 0 /\ last.positions[tk].qty > 0
    /\ last.current_prices[tk] > 0

ReasonsFor(tk) == {last.ret[i].reason : i \in {j \in DOMAIN last.ret : last.ret[j].token_id = tk}}

SignalCount(tk) == Cardinality({j \in DOMAIN last.ret : last.ret[j].token_id = tk})

TakesProfit(tk) ==
    (last.current_prices[tk] - last.positions[tk].avg_price) * 100
        >= TP_PCT * last.positions[tk].avg_price

StopsLoss(tk) ==
    (last.positions[tk].avg_price - last.current_prices[tk]) * 100
        >= SL_PCT * last.positions[tk].avg_price

PastMaxHold(tk) ==
    /\ last.positions[tk].opened_at # NoTime
    /\ last.t - last.positions[tk].opened_at >= MAX_HOLD_S

\* C29: for a valid position with a current price, check_exit_conditions emits
\* take_profit exactly when pnl_pct = (current - avg)/avg is at least the
\* take-profit band; failing that, stop_loss exactly when pnl_pct is at most
\* minus the stop-loss band; and nothing when pnl_pct is strictly inside both
\* bands and timeout exits are disabled.
C29_ExitBands ==
    ExitsChecked =>
        \A tk \in Tokens : Priced(tk) =>
            /\ ("take_profit" \in ReasonsFor(tk)) <=> TakesProfit(tk)
            /\ ~TakesProfit(tk) => (("stop_loss" \in ReasonsFor(tk)) <=> StopsLoss(tk))
            /\ (~TakesProfit(tk) /\ ~StopsLoss(tk) /\ ~last.exit_on_timeout)
                  => SignalCount(tk) = 0

\* one position exactly at the take-profit band, another strictly inside
C29_Witness ==
    /\ ExitsChecked
    /\ ~last.exit_on_timeout
    /\ Priced("A") /\ Priced("B")
    /\ (last.current_prices["A"] - last.positions["A"].avg_price) * 100
          = TP_PCT * last.positions["A"].avg_price
    /\ ReasonsFor("A") = {"take_profit"}
    /\ ~TakesProfit("B") /\ ~StopsLoss("B")
    /\ SignalCount("B") = 0

\* C30: check_exit_conditions emits at most one signal per position per call,
\* by the priority take-profit, stop-loss, timeout: a position past the maximum
\* hold time that is also at or beyond the take-profit (or stop-loss) band
\* yields the take_profit (or stop_loss) signal only.
C30_OneSignalByPriority ==
    ExitsChecked =>
        \A tk \in Tokens :
            /\ SignalCount(tk) <= 1
            /\ (Priced(tk) /\ TakesProfit(tk)) => ReasonsFor(tk) = {"take_profit"}
            /\ (Priced(tk) /\ ~TakesProfit(tk) /\ StopsLoss(tk))
                  => ReasonsFor(tk) = {"stop_loss"}

\* timeout exits on, a position past the maximum hold time and beyond the
\* stop-loss band gave the stop_loss signal alone
C30_Witness ==
    /\ ExitsChecked
    /\ last.exit_on_timeout
    /\ \E tk \in Tokens :
          /\ Priced(tk) /\ PastMaxHold(tk) /\ StopsLoss(tk)
          /\ SignalCount(tk) = 1
          /\ ReasonsFor(tk) = {"stop_loss"}

InvalidPosition(tk) ==
    /\ tk \in DOMAIN last.positions
    /\ (last.positions[tk].avg_price <= 0 \/ last.positions[tk].qty <= 0)

\* C31: check_exit_conditions never emits a signal for an invalid position
\* (avg_price <= 0 or qty <= 0), whatever the current price and the hold time,
\* and still evaluates the other positions: one beyond a band gets its signal.
C31_InvalidPositionSkipped ==
    ExitsChecked =>
        \A tk \in Tokens :
            /\ InvalidPosition(tk) => SignalCount(tk) = 0
            /\ (Priced(tk) /\ TakesProfit(tk)) => "take_profit" \in ReasonsFor(tk)
            /\ (Priced(tk) /\ ~TakesProfit(tk) /\ StopsLoss(tk))
                  => "stop_loss" \in ReasonsFor(tk)

\* an invalid position past the maximum hold time, priced beyond a band, came
\* first and gave nothing; the position after it got its signal
C31_Witness ==
    /\ ExitsChecked
    /\ last.exit_on_timeout
    /\ InvalidPosition("A") /\ PastMaxHold("A")
    /\ last.current_prices["A"] > 0
    /\ SignalCount("A") = 0
    /\ Priced("B") /\ StopsLoss("B")
    /\ ReasonsFor("B") = {"stop_loss"}

\* a valid position whose current price could not be had
Unpriced(tk) ==
    /\ tk \in DOMAIN last.positions
    /\ last.positions[tk].avg_price > 0 /\ last.positions[tk].qty > 0
    /\ last.current_prices[tk] <= 0

SignalsFor(tk) == {last.ret[j] : j \in {i \in DOMAIN last.ret : last.ret[i].token_id = tk}}

\* C32: for a valid position without a current price, check_exit_conditions
\* emits no take-profit and no stop-loss signal; it emits one timeout_no_price
\* signal, priced at the average entry price, exactly when timeout exits are
\* enabled and the position has been held for at least the maximum hold time.
C32_NoPriceTimeoutOnly ==
    ExitsChecked =>
        \A tk \in Tokens : Unpriced(tk) =>
            IF last.exit_on_timeout /\ PastMaxHold(tk)
            THEN /\ SignalCount(tk) = 1
                 /\ SignalsFor(tk) = {ExitSignal(tk, "timeout_no_price", last.positions[tk].qty,
                                                 last.positions[tk].avg_price)}
            ELSE SignalCount(tk) = 0

C32_Witness ==
    /\ ExitsChecked
    /\ \E tk \in Tokens :
          /\ Unpriced(tk) /\ PastMaxHold(tk)
          /\ last.exit_on_timeout
          /\ ReasonsFor(tk) = {"timeout_no_price"}
          /\ \A sig \in SignalsFor(tk) : sig.current_price = last.positions[tk].avg_price

----------------------------------------------------------------------------
(* The paper ledger and its copy in the store, write by write (SpecPersist): *)
(* cancel_reserved saves inside release_reserved_cash and again after the     *)
(* refund; the process can stop between the two and start again from the      *)
(* store.                                                                     *)

IdleLedger == \A t \in Threads : pc[t] = "idle"

\* cancel_reserved up to the return of release_reserved_cash (lines 119-121)
CancelReservedRelease ==
    /\ IdleLedger
    /\ calls < MaxCalls
    /\ calls' = calls + 1
    /\ \E order_id \in OrderIds :
        LET r == release_reserved_cash(LEDGER, order_id) IN
        /\ LEDGER' = r.ledger
        /\ redis_ledger' = Save(r)
        /\ Record(Call("cancel_reserved", "", order_id, 0, 0, r.ret = 0, r.ret, LEDGER))
        /\ IF r.ret > 0
           THEN /\ pc' = [pc EXCEPT !["api"] = "cancel_refund"]
                /\ frame' = [frame EXCEPT !["api"] =
                                [NoFrame EXCEPT !.order_id = order_id, !.amount = r.ret]]
           ELSE UNCHANGED <<pc, frame>>
    /\ UNCHANGED <<orders, next_id, now, applied>>
    /\ UNCHANGED tickVars
    /\ UNCHANGED <<LIVE_LEDGER, drawdown>>

\* cancel_reserved: the refund and the second save (lines 122-125)
CancelReservedRefund ==
    /\ pc["api"] = "cancel_refund"
    /\ LEDGER' = [LEDGER EXCEPT !.cash = @ + frame["api"].amount]
    /\ redis_ledger' = LEDGER'
    /\ last' = [last EXCEPT !.ok = TRUE]
    /\ pc' = [pc EXCEPT !["api"] = "idle"]
    /\ frame' = [frame EXCEPT !["api"] = NoFrame]
    /\ UNCHANGED <<orders, next_id, now, applied, prev, calls>>
    /\ UNCHANGED tickVars
    /\ UNCHANGED <<LIVE_LEDGER, drawdown>>

\* the process stops inside a call and is started again: PaperLedger.__init__
\* reads the store (load_from_redis)
CrashRestart ==
    /\ ~IdleLedger
    /\ LEDGER' = redis_ledger
    /\ pc' = [t \in Threads |-> "idle"]
    /\ frame' = [t \in Threads |-> NoFrame]
    /\ last' = NoCall
    /\ UNCHANGED <<redis_ledger, orders, next_id, now, applied, prev, calls>>
    /\ UNCHANGED tickVars
    /\ UNCHANGED <<LIVE_LEDGER, drawdown>>

NextPersist ==
    \/ IdleLedger /\ ReserveCash
    \/ IdleLedger /\ AddPosition
    \/ IdleLedger /\ ReducePosition
    \/ CancelReservedRelease
    \/ CancelReservedRefund
    \/ CrashRestart

SpecPersist == Init /\ [][NextPersist]_vars

\* C33: every mutating ledger call is atomic towards the store: when no call is
\* running the stored ledger is the ledger in memory, and while a call is
\* running the store still holds the ledger as it was before the call, never
\* one with the call's change half made.
C33_StoreNeverPartial ==
    /\ IdleLedger => redis_ledger = LEDGER
    /\ ~IdleLedger => redis_ledger = last.before

----------------------------------------------------------------------------
(* Ledger and tracker calls with a store that may refuse the write           *)
(* (SpecStore): store_ok says whether redis.set / redis.setex goes through.  *)

save_to_redis_raises(L, stored, store_ok) ==
    [stored |-> IF store_ok THEN L ELSE stored, raised |-> ~store_ok]

\* PaperLedger.save_to_redis: the stored copy after it, and whether an
\* exception leaves it
save_to_redis(L, stored, store_ok) ==
    [stored |-> IF store_ok THEN L ELSE stored, raised |-> FALSE]

\* OrderTracker._save_to_redis
tracker_save_to_redis(O, stored, store_ok) ==
    [stored |-> IF store_ok THEN O ELSE stored, raised |-> FALSE]

Args(token_id, order_id, amount, qty, price) ==
    [token_id |-> token_id, order_id |-> order_id, amount |-> amount, qty |-> qty,
     price |-> price]

\* the arguments each method takes; the others stay at their defaults
LedgerArgs(op) ==
    CASE op = "reserve_cash" ->
           {Args("", order_id, 150 * price, 0, 0) : order_id \in OrderIds, price \in Prices}
      [] op = "cancel_reserved" ->
           {Args("", order_id, 0, 0, 0) : order_id \in OrderIds}
      [] OTHER ->
           {Args("A", NoId, 0, qty, price) : qty \in Qtys, price \in Prices}

LedgerMethods == {"reserve_cash", "cancel_reserved", "add_position", "reduce_position"}

\* the method's work in memory, whether it reaches save_to_redis, and its result
LedgerMethod(op, a, L, t) ==
    CASE op = "reserve_cash" ->
           LET r == reserve_cash(L, a.amount, a.order_id)
           IN [ledger |-> r.ledger, saved |-> r.saved, ret |-> IF r.ok THEN 1 ELSE 0]
      [] op = "cancel_reserved" ->
           LET r == cancel_reserved(L, a.order_id)
           IN [ledger |-> r.ledger, saved |-> r.saved, ret |-> r.ret]
      [] op = "add_position" ->
           [ledger |-> add_position(L, a.token_id, a.qty, a.price, t), saved |-> TRUE,
            ret |-> 0]
      [] op = "reduce_position" ->
           LET r == reduce_position(L, a.token_id, a.qty, a.price)
           IN [ledger |-> r.ledger, saved |-> r.saved, ret |-> r.pnl]

\* a method that mutates, then saves, then returns
Outcome(r, stored, store_ok) ==
    LET sv == IF r.saved THEN save_to_redis(r.ledger, stored, store_ok)
              ELSE [stored |-> stored, raised |-> FALSE]
    IN [memory |-> r.ledger, stored |-> sv.stored, ret |-> r.ret, raised |-> sv.raised]

StoreCall(op, a, t, store_ok, before, o) ==
    [op |-> op, a |-> a, t |-> t, store_ok |-> store_ok, before |-> before,
     memory |-> o.memory, ret |-> o.ret, raised |-> o.raised, saves |-> o.stored # before]

LedgerStoreCall ==
    /\ calls < MaxStoreCalls
    /\ calls' = calls + 1
    /\ \E op \in LedgerMethods, store_ok \in BOOLEAN : \E a \in LedgerArgs(op) :
        LET o == Outcome(LedgerMethod(op, a, LEDGER, now), redis_ledger, store_ok) IN
        /\ LEDGER' = o.memory
        /\ redis_ledger' = o.stored
        /\ last' = StoreCall(op, a, now, store_ok, LEDGER, o)
    /\ UNCHANGED <<orders, next_id, now, pc, frame, applied, prev>>
    /\ UNCHANGED tickVars
    /\ UNCHANGED <<LIVE_LEDGER, drawdown>>

\* OrderTracker.add_order and check_fills_paper
TrackerStoreCall ==
    /\ calls < MaxStoreCalls
    /\ calls' = calls + 1
    /\ \E store_ok \in BOOLEAN :
        \/ /\ next_id < MaxBook
           /\ next_id' = next_id + 1
           /\ \E token_id \in Tokens, limit_price \in Prices :
               LET O2 == Put(orders, next_id + 1,
                             TrackedOrder(token_id, "buy", limit_price, 100, "paper", now))
                   sv == tracker_save_to_redis(O2, orders, store_ok)
               IN /\ orders' = O2
                  /\ last' = StoreCall("add_order", Args(token_id, next_id + 1, 0, 100,
                                                         limit_price),
                                       now, store_ok, orders,
                                       [memory |-> O2, ret |-> 0, raised |-> sv.raised,
                                        stored |-> sv.stored])
        \/ /\ \E o \in get_open_orders(orders) : orders[o].mode = "paper"
           /\ UNCHANGED next_id
           /\ \E token_id \in Tokens, price \in Prices :
               LET r == check_fills_paper(orders, Put(EmptyMap, token_id, price),
                                          MAX_HOLD_S, now)
                   sv == tracker_save_to_redis(r.orders, orders, store_ok)
               IN /\ orders' = r.orders
                  /\ last' = StoreCall("check_fills_paper", Args(token_id, NoId, 0, 0, price),
                                       now, store_ok, orders,
                                       [memory |-> r.orders, ret |-> Len(r.fills),
                                        raised |-> sv.raised, stored |-> sv.stored])
    /\ UNCHANGED <<LEDGER, redis_ledger, now, pc, frame, applied, prev>>
    /\ UNCHANGED tickVars
    /\ UNCHANGED <<LIVE_LEDGER, drawdown>>

NextStore ==
    \/ LedgerStoreCall
    \/ TrackerStoreCall

SpecStore == Init /\ [][NextStore]_vars

\* what the call leaves in memory and returns when the store works
WithWorkingStore(c) ==
    IF c.op \in LedgerMethods
    THEN LET r == LedgerMethod(c.op, c.a, c.before, c.t)
         IN [memory |-> r.ledger, ret |-> r.ret]
    ELSE IF c.op = "add_order"
    THEN [memory |-> Put(c.before, c.a.order_id,
                         TrackedOrder(c.a.token_id, "buy", c.a.price, c.a.qty, "paper", c.t)),
          ret |-> 0]
    ELSE LET r == check_fills_paper(c.before, Put(EmptyMap, c.a.token_id, c.a.price),
                                    MAX_HOLD_S, c.t)
         IN [memory |-> r.orders, ret |-> Len(r.fills)]

StoreCalled == last.op \in LedgerMethods \cup {"add_order", "check_fills_paper"}

----------------------------------------------------------------------------
(* The stepped paper execution with a process that can stop inside a call    *)
(* and start again (SpecCrash): the tracker and the ledger are read back     *)
(* from the store, the fills check_fills_paper returned are gone.            *)

NextCrash ==
    \/ \E t \in Threads : PlaceOrderCheck(t)
    \/ \E t \in Threads : PlaceOrderSellFill(t)
    \/ \E t \in Threads : PlaceOrderReserve(t)
    \/ \E t \in Threads : PlaceOrderAdd(t)
    \/ ProcessFillsCheck
    \/ ProcessFillsRelease
    \/ ProcessFillsExecute
    \/ CrashRestart

SpecCrash == Init /\ [][NextCrash]_vars

\* C35: every simulated order that became filled has its fill applied to the
\* paper ledger, also when the process stops and starts again between the
\* tracker storing status filled and the ledger update of process_fills: once
\* process_fills is not running, no filled order is without its ledger update.
C35_FillAppliedOnce ==
    pc["tick"] = "idle"
    => \A o \in DOMAIN orders :
          (orders[o].mode = "paper" /\ orders[o].status = "filled") => o \in applied

\* C36: reservations exist only for open buy orders: a paper buy order that is
\* filled, cancelled or expired has no reservation under its order id in the
\* ledger once the call that ended it has returned.
C36_TerminalBuyHoldsNoReservation ==
    \A o \in DOMAIN orders :
        (PaperBuy(o) /\ orders[o].status \in Terminal) => o \notin DOMAIN LEDGER.reserved

\* C37: when paper buy orders fill, the cash taken out of the ledger for them
\* (out of cash and reservations together) is qty * fill price, the cost basis
\* recorded in the position, also when the fill price is below the limit price.
C37_FillDebitsFillPrice ==
    [][LET F == applied' \ applied IN
       (F # {} /\ \A o \in F : o \in DOMAIN orders' /\ orders'[o].side = "buy")
       => (LEDGER.cash + ReservedTotal(LEDGER)) - (LEDGER'.cash + ReservedTotal(LEDGER'))
              = SumOver([o \in F |-> orders'[o].qty * orders'[o].filled_price], F)]_vars

----------------------------------------------------------------------------
(* The circuit breaker called directly (SpecBreaker): trip, reset and        *)
(* auto_reset_check at any moment of a clock that moves by half a cooldown.  *)

CooldownStep == cooldown_seconds \div 2

TripReasons == {"daily_loss", "drawdown"}

BreakerCall(op, reason, t, before, after, ret, alerts) ==
    [op |-> op, reason |-> reason, t |-> t, before |-> before, after |-> after,
     ret |-> ret, alerts |-> alerts]

Trip ==
    /\ \E reason \in TripReasons :
        /\ cb' = trip(cb, reason, now)
        /\ last' = BreakerCall("trip", reason, now, cb, cb', FALSE,
                               trip_alerts(cb, reason))
    /\ UNCHANGED <<streak, tick_lock, req, tick_count, tick_errors, placed>>
    /\ UNCHANGED <<LEDGER, redis_ledger, LIVE_LEDGER, drawdown, prev, calls>>
    /\ UNCHANGED execVars

AutoResetCheck ==
    /\ LET r == auto_reset_check(cb, now) IN
        /\ cb' = r.cb
        /\ last' = BreakerCall("auto_reset_check", "", now, cb, r.cb, r.ret, <<>>)
    /\ UNCHANGED <<streak, tick_lock, req, tick_count, tick_errors, placed>>
    /\ UNCHANGED <<LEDGER, redis_ledger, LIVE_LEDGER, drawdown, prev, calls>>
    /\ UNCHANGED execVars

\* half a cooldown passes
BreakerClock ==
    /\ now + CooldownStep <= MaxCooldowns * cooldown_seconds
    /\ now' = now + CooldownStep
    /\ UNCHANGED <<LEDGER, redis_ledger, orders, next_id, last, prev, calls, pc, frame,
                   applied>>
    /\ UNCHANGED tickVars
    /\ UNCHANGED <<LIVE_LEDGER, drawdown>>

NextBreaker ==
    \/ Trip
    \/ AutoResetCheck
    \/ ResetBreaker
    \/ BreakerClock

SpecBreaker == Init /\ [][NextBreaker]_vars

\* C21: trip(reason) is idempotent: a trip of a breaker that is already open,
\* with any reason, leaves its state, recorded reason and trip timestamp as
\* they were and sends no alert.
C21_TripIdempotent ==
    (last.op = "trip" /\ is_open(last.before))
        => (last.after = last.before /\ last.alerts = <<>>)

C21_Witness ==
    /\ last.op = "trip"
    /\ is_open(last.before)
    /\ last.reason # last.before.reason
    /\ last.t # last.before.tripped_at

Elapsed(c) == c.t - c.before.tripped_at

\* C22: with the breaker open and a trip timestamp recorded, auto_reset_check
\* resets the breaker to closed and returns true exactly when the time since
\* the trip is at least the cooldown; before that it leaves the breaker as it
\* is, open, and returns false.
C22_AutoResetExactlyAfterCooldown ==
    (last.op = "auto_reset_check" /\ is_open(last.before) /\ last.before.tripped_at >= 0)
        => IF Elapsed(last) >= cooldown_seconds
           THEN last.ret /\ get_state(last.after) = "closed"
           ELSE ~last.ret /\ last.after = last.before

C22_Witness ==
    /\ last.op = "auto_reset_check"
    /\ is_open(last.before)
    /\ Elapsed(last) = cooldown_seconds
    /\ last.ret
    /\ get_state(cb) = "closed"

----------------------------------------------------------------------------
(* The breaker in the risk gate over cooldown-sized time (SpecCooldown):     *)
(* trades trip it, the clock moves on, and every tick that has a trade to     *)
(* make calls pre_trade_checks; nobody resets the breaker by hand.            *)

PreTradeChecksTrade == PreTradeChecksOn({"buy", "sell"}, CalmInputs)

NextCooldown ==
    \/ PreTradeChecksTrade
    \/ PostTradeUpdate
    \/ BreakerClock

SpecCooldown ==
    /\ Init
    /\ [][NextCooldown]_vars
    /\ WF_vars(PreTradeChecksTrade)
    /\ WF_vars(BreakerClock)

CooldownElapsed == is_open(cb) /\ cb.tripped_at >= 0 /\ now - cb.tripped_at >= cooldown_seconds

\* C23: a tripped breaker ends by cooldown expiry: once the cooldown has
\* elapsed since the trip and ticks keep calling pre_trade_checks with non-hold
\* decisions, the breaker is eventually closed again without an operator reset.
C23_CooldownReturnsToClosed == CooldownElapsed ~> ~is_open(cb)

----------------------------------------------------------------------------
(* trip and reset key by key (SpecRace): the tick trips the breaker while    *)
(* the reset script, another process on the same store, resets it. Each      *)
(* step is one command sent to the store.                                    *)

BreakerStep(t, from, to) ==
    /\ pc[t] = from
    /\ pc' = [pc EXCEPT ![t] = to]
    /\ UNCHANGED <<streak, tick_lock, req, tick_count, tick_errors, placed>>
    /\ UNCHANGED <<LEDGER, redis_ledger, LIVE_LEDGER, drawdown, last, prev, calls>>
    /\ UNCHANGED <<orders, next_id, now, frame, applied>>

\* trip: if self.is_open(): return (lines 49-50)
TripIsOpen ==
    /\ BreakerStep("tick", "idle", IF is_open(cb) THEN "idle" ELSE "trip_state")
    /\ UNCHANGED cb

\* trip: set circuit_breaker:state (line 52)
TripSetState ==
    /\ BreakerStep("tick", "trip_state", "trip_reason")
    /\ cb' = [cb EXCEPT !.state = "open"]

\* trip: set circuit_breaker:reason (line 53); the reason is the caller's
\* argument, read by this step only
TripSetReason ==
    /\ BreakerStep("tick", "trip_reason", "trip_at")
    /\ \E reason \in TripReasons : cb' = [cb EXCEPT !.reason = reason]

\* trip: set circuit_breaker:tripped_at (line 54)
TripSetTrippedAt ==
    /\ BreakerStep("tick", "trip_at", "idle")
    /\ cb' = [cb EXCEPT !.tripped_at = now]

\* reset: set circuit_breaker:state (line 63)
ResetSetState ==
    /\ BreakerStep("api", "idle", "reset_reason")
    /\ cb' = [cb EXCEPT !.state = "closed"]

\* reset: delete circuit_breaker:reason (line 64)
ResetDeleteReason ==
    /\ BreakerStep("api", "reset_reason", "reset_at")
    /\ cb' = [cb EXCEPT !.reason = ""]

\* reset: delete circuit_breaker:tripped_at (line 65)
ResetDeleteTrippedAt ==
    /\ BreakerStep("api", "reset_at", "idle")
    /\ cb' = [cb EXCEPT !.tripped_at = -1]

NextRace ==
    \/ TripIsOpen
    \/ TripSetState
    \/ TripSetReason
    \/ TripSetTrippedAt
    \/ ResetSetState
    \/ ResetDeleteReason
    \/ ResetDeleteTrippedAt
    \/ BreakerClock

SpecRace == Init /\ [][NextRace]_vars

\* C38: under any interleaving of a trip with a reset, once both calls have
\* returned the breaker is consistent: open with a trip reason and a trip
\* timestamp recorded, or closed with neither left.
C38_StableBreakerConsistent ==
    IdleLedger
    => /\ is_open(cb) => (cb.reason # "" /\ cb.tripped_at >= 0)
       /\ ~is_open(cb) => (cb.reason = "" /\ cb.tripped_at = -1)

\* C39: the daily-loss cap is breached only by losses: post_trade_update for a
\* trade whose day's realized PnL is not a loss of at least the cap (and whose
\* drawdown is under its cap) leaves a closed breaker closed, whatever the
\* size of a positive daily PnL.
C39_OnlyLossesBreachDailyCap ==
    (/\ PostTraded
     /\ last.trade.has_pnl
     /\ ~is_open(last.cb_before)
     /\ last.trade.daily_pnl > -max_daily_loss
     /\ last.trade.current_dd_pct < max_drawdown_pct)
    => ~is_open(last.cb_after)

----------------------------------------------------------------------------
(* pre_trade_checks with the size it attaches (SpecSizing): the limits are   *)
(* checked on ORDER_USD, the decision gets the size _adjust_position_size    *)
(* computes; sizes in cents.                                                 *)

\* _adjust_position_size (lines 173-190): the simple sizing rule once the week
\* has ten trades, ORDER_USD before
optimal_size(portfolio_value, total_trades, confidence) ==
    IF total_trades >= 10 THEN simple_position_size(portfolio_value, 2, confidence)
    ELSE ORDER_USD * Cents

\* cash plus positions at entry prices: nothing left, under and at the
\* percentage cap for ORDER_USD, the initial cash, a large portfolio
SizingInputs ==
    [daily_pnl : {0}, weekly_pnl : {0},
     portfolio_value : {0, 4 * ORDER_USD, 5 * ORDER_USD, InitialCashUsd,
                        100 * InitialCashUsd},
     current_positions : {0, max_open_positions},
     current_drawdown_pct : {0}]

PreTradeChecksSized ==
    /\ \E action \in Actions, m \in SizingInputs, total_trades \in {0, 10},
          confidence \in {0, 70, 100} :
        LET rest == limit_checks(action, m, "ok", streak.last_trade_timestamp, now)
            size == optimal_size(m.portfolio_value, total_trades, confidence)
            r == pre_trade_checks(Decision(action), cb, streak.losses, now, rest, size)
        IN /\ cb' = r.cb
           /\ last' = RiskCall("pre_trade_checks", action, ORDER_USD, m, "ok",
                               [allowed |-> r.allowed, reason |-> r.reason,
                                decision |-> r.decision],
                               cb)
    /\ UNCHANGED <<streak, tick_lock, req, tick_count, tick_errors, placed>>
    /\ UNCHANGED <<LEDGER, redis_ledger, LIVE_LEDGER, drawdown, prev, calls>>
    /\ UNCHANGED execVars

NextSizing ==
    \/ PreTradeChecksSized
    \/ Trip
    \/ ResetBreaker
    \/ AdvanceTime

SpecSizing == Init /\ [][NextSizing]_vars

\* C40: for every buy that pre_trade_checks allows, the size attached to the
\* decision is within the caps that were checked: at most the absolute
\* position-size cap and at most max_position_pct of the portfolio value.
C40_SuggestedSizeWithinCaps ==
    (last.op = "pre_trade_checks" /\ last.action = "buy" /\ last.result.allowed)
    => /\ last.result.decision.suggested_size_usd <= max_position_size_usd * Cents
       /\ last.result.decision.suggested_size_usd * 100
              <= max_position_pct * last.m.portfolio_value * Cents

====
